---- MODULE Spec2Model ----
(***************************************************************************)
(* A model of the tabular formula engine of src/tasks/Fi.py (class         *)
(* Formula) and of the selection builder of src/tasks/npevaluate.py.       *)
(*                                                                         *)
(* Text is a sequence of one-character strings, so that the rewriting      *)
(* stages, which the source writes as regular-expression substitutions     *)
(* and index scans, are modelled by what they do to each character.        *)
(* Indices named i, j, p are Python's (0-based); s[i + 1] is Python's s[i]. *)
(***************************************************************************)
EXTENDS Integers, Sequences, FiniteSets, TLC

(***************************************************************************)
(* Bounds of the model.                                                    *)
(***************************************************************************)
\* the largest number of rows of a table
MaxRows == 2
\* the largest number of WHEN branches of a generated chain
MaxBranches == 2
\* the number of tasks started
MaxTasks == 2
\* the number of processes ProcessManager starts
MaxProcs == 2
\* max_concurrent_processes, the cpu count of the host
MaxConcurrent == 1
\* the number of start_process calls that may overlap
MaxCallers == 2
\* the number of progress updates the workers emit
MaxUpdates == 2
\* the number of websockets
MaxSockets == 2

(***************************************************************************)
(* Characters and Python's string operations.                              *)
(***************************************************************************)
Digits == {"0", "1", "2", "3", "4", "5", "6", "7", "8", "9"}

Lower == {"a", "b", "c", "d", "e", "f", "g", "h", "i", "j", "k", "l", "m",
          "n", "o", "p", "q", "r", "s", "t", "u", "v", "w", "x", "y", "z"}

Upper == {"A", "B", "C", "D", "E", "F", "G", "H", "I", "J", "K", "L", "M",
          "N", "O", "P", "Q", "R", "S", "T", "U", "V", "W", "X", "Y", "Z"}

\* the regular expression class \w
WordChars == Digits \cup Lower \cup Upper \cup {"_"}

\* what str.strip() removes
Whitespace == {" ", "\t", "\n"}

Quotes == {"'", "\""}

Min(a, b) == IF a < b THEN a ELSE b

\* the least index of the set hits, which is not empty
First(hits) == CHOOSE j \in hits : \A m \in hits : j <= m

\* Python's s[lo:hi] for 0 <= lo
Slice(s, lo, hi) == SubSeq(s, lo + 1, Min(hi, Len(s)))

\* Python's s[lo:]
SliceFrom(s, lo) == SubSeq(s, lo + 1, Len(s))

\* Python's s[i:i+len(w)] == w
StartsAt(s, i, w) == Slice(s, i, i + Len(w)) = w

\* Python's s[i], or "" past either end
CharAt(s, i) == IF i >= 0 /\ i < Len(s) THEN s[i + 1] ELSE ""

\* Python's  w in s
Contains(s, w) == \E i \in 0..Len(s) : StartsAt(s, i, w)

RECURSIVE LStrip(_)
LStrip(s) ==
    IF s # <<>> /\ s[1] \in Whitespace THEN LStrip(Tail(s)) ELSE s

RECURSIVE RStrip(_)
RStrip(s) ==
    IF s # <<>> /\ s[Len(s)] \in Whitespace
    THEN RStrip(SubSeq(s, 1, Len(s) - 1))
    ELSE s

\* Python's s.strip()
Strip(s) == RStrip(LStrip(s))

LowerOf(ch) ==
    CASE ch = "A" -> "a" [] ch = "B" -> "b" [] ch = "C" -> "c" [] ch = "D" -> "d"
      [] ch = "E" -> "e" [] ch = "F" -> "f" [] ch = "G" -> "g" [] ch = "H" -> "h"
      [] ch = "I" -> "i" [] ch = "J" -> "j" [] ch = "K" -> "k" [] ch = "L" -> "l"
      [] ch = "M" -> "m" [] ch = "N" -> "n" [] ch = "O" -> "o" [] ch = "P" -> "p"
      [] ch = "Q" -> "q" [] ch = "R" -> "r" [] ch = "S" -> "s" [] ch = "T" -> "t"
      [] ch = "U" -> "u" [] ch = "V" -> "v" [] ch = "W" -> "w" [] ch = "X" -> "x"
      [] ch = "Y" -> "y" [] ch = "Z" -> "z" [] OTHER -> ch

\* Python's s.lower()
ToLower(s) == [k \in 1..Len(s) |-> LowerOf(s[k])]

\* Python's str.upper on the characters the model writes
ToUpper(s) ==
    [k \in 1..Len(s) |-> IF s[k] \in Lower THEN CHOOSE u \in Upper : LowerOf(u) = s[k]
                          ELSE s[k]]

RECURSIVE Join(_, _)
\* Python's sep.join(parts)
Join(sep, parts) ==
    IF parts = <<>> THEN <<>>
    ELSE IF Len(parts) = 1 THEN parts[1]
    ELSE parts[1] \o sep \o Join(sep, Tail(parts))

RECURSIVE Concat(_)
\* the concatenation of a sequence of texts
Concat(parts) == IF parts = <<>> THEN <<>> ELSE parts[1] \o Concat(Tail(parts))

\* Python's repr() of a string without quote characters
Repr(s) == <<"'">> \o s \o <<"'">>

\* the regular expression assertion \b at index i of s
WordBoundary(s, i) == (CharAt(s, i - 1) \in WordChars) # (CharAt(s, i) \in WordChars)

RECURSIVE RunLen(_, _, _)
\* the number of characters of class cls that s holds from index i on
RunLen(s, i, cls) == IF CharAt(s, i) \in cls THEN 1 + RunLen(s, i + 1, cls) ELSE 0

(***************************************************************************)
(* The rewriting stages of Formula.                                        *)
(***************************************************************************)
\* the alternatives of  '|'.join(map(re.escape, df.columns)) : no column
\* leaves one empty alternative
ColumnAlternatives(cols) == IF cols = <<>> THEN << <<>> >> ELSE cols

\* the first alternative that \b(alt)\b matches at i, or 0
ColumnMatchAt(alts, s, i) ==
    LET ok(k) == /\ StartsAt(s, i, alts[k])
                 /\ WordBoundary(s, i)
                 /\ WordBoundary(s, i + Len(alts[k]))
        hits == {k \in 1..Len(alts) : ok(k)}
    IN  IF hits = {} THEN 0 ELSE CHOOSE k \in hits : \A m \in hits : k <= m

\* what the substitution writes for a matched column name
ColumnRef(name) == <<"d", "f", "[">> \o Repr(name) \o <<"]">>

RECURSIVE SubColumns(_, _, _)
\* re.sub over s from index i on: the text up to the leftmost match is
\* copied and the match replaced; an empty match is replaced and the next
\* character copied
SubColumns(alts, s, i) ==
    LET hits == {j \in i..Len(s) : ColumnMatchAt(alts, s, j) # 0}
    IN  IF hits = {} THEN SliceFrom(s, i)
        ELSE LET j == First(hits)
                 k == ColumnMatchAt(alts, s, j)
             IN  IF alts[k] # <<>>
                 THEN Slice(s, i, j) \o ColumnRef(alts[k])
                         \o SubColumns(alts, s, j + Len(alts[k]))
                 ELSE Slice(s, i, j) \o ColumnRef(alts[k]) \o Slice(s, j, j + 1)
                         \o SubColumns(alts, s, j + 1)

\* a faulty resolver: the name zz is replaced as if it were a column
ReplaceColumnRefsAndUnknown(cols, formula) ==
    SubColumns(ColumnAlternatives(cols \o << <<"z", "z">> >>), formula, 0)

\* Formula._replace_column_refs
ReplaceColumnRefs(cols, formula) == SubColumns(ColumnAlternatives(cols), formula, 0)

\* the index after an optional character of class cls at index i
Optional(s, i, cls) == IF CharAt(s, i) \in cls THEN i + 1 ELSE i

\* the match of  \w+['"]?\]  at index j, for a match that began at index i:
\* its length from i, or 0
DfRefTail(s, i, j, w) ==
    IF w > 0 /\ CharAt(s, Optional(s, j + w, Quotes)) = "]"
    THEN Optional(s, j + w, Quotes) + 1 - i
    ELSE 0

\* the length of the match of  df\[['"]?\w+['"]?\]  at index i, or 0
DfRefLen(s, i) ==
    IF ~StartsAt(s, i, <<"d", "f", "[">>) THEN 0
    ELSE DfRefTail(s, i, Optional(s, i + 3, Quotes),
                   RunLen(s, Optional(s, i + 3, Quotes), WordChars))

\* the length of the match of  name\((df-ref)\)  at index i, or 0; name
\* ends with the parenthesis
CallLen(name, s, i) ==
    LET n == DfRefLen(s, i + Len(name))
    IN  IF StartsAt(s, i, name) /\ n > 0 /\ CharAt(s, i + Len(name) + n) = ")"
        THEN Len(name) + n + 1 ELSE 0

RECURSIVE SubCall(_, _, _, _)
\* re.sub(name\((df-ref)\), repl(\1), s) from index i on
SubCall(name, repl, s, i) ==
    LET hits == {j \in i..(Len(s) - 1) : CallLen(name, s, j) > 0}
    IN  IF hits = {} THEN SliceFrom(s, i)
        ELSE LET j == First(hits)
                 n == CallLen(name, s, j)
             IN  Slice(s, i, j) \o repl \o Slice(s, j + Len(name), j + n)
                    \o SubCall(name, repl, s, j + n)

S_IsNull == <<"I", "s", "N", "u", "l", "l", "(">>

S_IsNotNull == <<"I", "s", "N", "o", "t", "N", "u", "l", "l", "(">>

S_is_null == <<"F", "o", "r", "m", "u", "l", "a", ".", "i", "s", "_", "n", "u", "l", "l", "(">>

S_is_not_null ==
    <<"F", "o", "r", "m", "u", "l", "a", ".", "i", "s", "_", "n", "o", "t", "_",
      "n", "u", "l", "l", "(">>

\* Formula._process_null_checks
ProcessNullChecks(formula) ==
    SubCall(S_IsNotNull, S_is_not_null, SubCall(S_IsNull, S_is_null, formula, 0), 0)

S_None == <<"N", "o", "n", "e">>

\* the match of the slice pattern at index i:
\*   \(?(df-ref)\)?\[(\d*)?:(\d*)?\]
NoSliceMatch == [ok |-> FALSE, ref |-> <<>>, start |-> <<>>, stop |-> <<>>, end |-> 0]

\* the match of  \[(\d*)?:(\d*)?\]  at index p3, where d1 digits follow the
\* bracket and d2 digits the colon, after the reference s[p1:p2]
SliceBounds(s, p1, p2, p3, d1, d2) ==
    IF CharAt(s, p3) = "[" /\ CharAt(s, p3 + 1 + d1) = ":" /\ CharAt(s, p3 + 2 + d1 + d2) = "]"
    THEN [ok |-> TRUE, ref |-> Slice(s, p1, p2),
          start |-> Slice(s, p3 + 1, p3 + 1 + d1),
          stop |-> Slice(s, p3 + 2 + d1, p3 + 2 + d1 + d2),
          end |-> p3 + 3 + d1 + d2]
    ELSE NoSliceMatch

\* the match of  \)?\[(\d*)?:(\d*)?\]  at index p2, after the reference
SliceAfterRef(s, p1, p2, p3) ==
    SliceBounds(s, p1, p2, p3, RunLen(s, p3 + 1, Digits),
                RunLen(s, p3 + 2 + RunLen(s, p3 + 1, Digits), Digits))

\* the match of  (df-ref)\)?\[(\d*)?:(\d*)?\]  at index p1, the reference
\* being n characters long
SliceFromRef(s, p1, n) ==
    IF n = 0 THEN NoSliceMatch
    ELSE SliceAfterRef(s, p1, p1 + n, Optional(s, p1 + n, {")"}))

\* the match of the slice pattern at index i:
\*   \(?(df-ref)\)?\[(\d*)?:(\d*)?\]
SliceMatch(s, i) ==
    SliceFromRef(s, Optional(s, i, {"("}), DfRefLen(s, Optional(s, i, {"("})))

\* the replacement function of Formula._process_slices
SliceRepl(m) ==
    m.ref \o <<".", "s", "t", "r", ".", "s", "l", "i", "c", "e", "(">>
          \o (IF m.start # <<>> THEN m.start ELSE S_None) \o <<",", " ">>
          \o (IF m.stop # <<>> THEN m.stop ELSE S_None) \o <<")">>

RECURSIVE SubSlices(_, _)
\* the replacement of the match m and the substitution in what follows it
SubSlicesAt(s, m) == SliceRepl(m) \o SubSlices(s, m.end)

\* re.sub(slice pattern, repl, s) from index i on
SubSlices(s, i) ==
    LET hits == {j \in i..(Len(s) - 1) : SliceMatch(s, j).ok}
    IN  IF hits = {} THEN SliceFrom(s, i)
        ELSE Slice(s, i, First(hits)) \o SubSlicesAt(s, SliceMatch(s, First(hits)))

\* Formula._process_slices
ProcessSlices(formula) == SubSlices(formula, 0)

\* names of dir(pd.Series([], dtype="object").str) : the string accessor's
\* methods (a part of them)
StrMethods ==
    { <<"c", "o", "n", "t", "a", "i", "n", "s">>,
      <<"e", "n", "d", "s", "w", "i", "t", "h">>,
      <<"s", "t", "a", "r", "t", "s", "w", "i", "t", "h">>,
      <<"l", "o", "w", "e", "r">>,
      <<"u", "p", "p", "e", "r">>,
      <<"s", "t", "r", "i", "p">>,
      <<"s", "l", "i", "c", "e">>,
      <<"l", "e", "n">> }

\* the methods m for which  (df-ref)\.(m)\(  matches at index i
MethodsAt(s, i) ==
    LET n == DfRefLen(s, i)
    IN  {m \in StrMethods : n > 0 /\ StartsAt(s, i + n, <<".">> \o m \o <<"(">>)}

RECURSIVE SubStrMethods(_, _)
\* re.sub(method pattern, \1.str.\2(, s) from index i on
SubStrMethods(s, i) ==
    LET hits == {j \in i..(Len(s) - 1) : MethodsAt(s, j) # {}}
    IN  IF hits = {} THEN SliceFrom(s, i)
        ELSE LET j == First(hits)
                 n == DfRefLen(s, j)
                 m == CHOOSE x \in MethodsAt(s, j) : TRUE
             IN  Slice(s, i, j + n) \o <<".", "s", "t", "r", ".">> \o m \o <<"(">>
                    \o SubStrMethods(s, j + n + 1 + Len(m) + 1)

\* Formula._process_str_methods
ProcessStrMethods(formula) == SubStrMethods(formula, 0)

(***************************************************************************)
(* The conditional flattener of Formula.                                   *)
(***************************************************************************)
S_if == <<" ", "i", "f", " ">>

S_else == <<" ", "e", "l", "s", "e", " ">>

NoSplit == [ok |-> FALSE, value |-> <<>>, cond |-> <<>>, rest |-> <<>>]

\* the value of the depth counter of _split_if's loops when they reach
\* index i of s: the parentheses opened before i less those closed
Depth(s, i) ==
    Cardinality({k \in 1..i : s[k] = "("}) - Cardinality({k \in 1..i : s[k] = ")"})

\* the inner loop of _split_if: the indices j of after where an " else "
\* stands at depth2 = 0
ElseAt(after) ==
    {j \in 0..(Len(after) - 1) : StartsAt(after, j, S_else) /\ Depth(after, j) = 0}

\* the outer loop of _split_if: the indices i of expr where an " if " stands
\* at depth = 0 and the inner loop finds an " else " after it
IfAt(expr) ==
    {i \in 0..(Len(expr) - 1) :
        /\ StartsAt(expr, i, S_if)
        /\ Depth(expr, i) = 0
        /\ ElseAt(SliceFrom(expr, i + 4)) # {}}

\* what _split_if returns for the " if " at index i and the " else " at
\* index j of what follows it
SplitAt(expr, i, j) ==
    [ok |-> TRUE, value |-> Slice(expr, 0, i), cond |-> Slice(expr, i + 4, i + 4 + j),
     rest |-> SliceFrom(expr, i + 4 + j + 6)]

SplitAtIf(expr, i) == SplitAt(expr, i, First(ElseAt(SliceFrom(expr, i + 4))))

\* Formula._split_if : ok = FALSE is the ValueError it raises
SplitIf(expr) == IF IfAt(expr) = {} THEN NoSplit ELSE SplitAtIf(expr, First(IfAt(expr)))

RECURSIVE TokenizeLoopPrepend(_, _)
\* a faulty loop: tokens.insert(0, ..) in place of tokens.append(..)
TokenizeLoopPrepend(tokens, remaining) ==
    IF Contains(remaining, S_if)
    THEN IF ~SplitIf(remaining).ok THEN [ok |-> FALSE, tokens |-> <<>>]
         ELSE TokenizeLoopPrepend(<< <<Strip(SplitIf(remaining).cond),
                                       Strip(SplitIf(remaining).value)>> >> \o tokens,
                                  SplitIf(remaining).rest)
    ELSE [ok |-> TRUE,
          tokens |-> Append(tokens, <<<<"d", "e", "f", "a", "u", "l", "t">>, Strip(remaining)>>)]

RECURSIVE TokenizeLoop(_, _)
\* the while loop of _tokenize_ifelse and what follows it
TokenizeLoop(tokens, remaining) ==
    IF Contains(remaining, S_if)
    THEN LET parts == SplitIf(remaining)
         IN  IF ~parts.ok THEN [ok |-> FALSE, tokens |-> <<>>]
             ELSE TokenizeLoop(Append(tokens, <<Strip(parts.cond), Strip(parts.value)>>),
                               parts.rest)
    ELSE [ok |-> TRUE,
          tokens |-> Append(tokens, <<<<"d", "e", "f", "a", "u", "l", "t">>, Strip(remaining)>>)]

\* Formula._tokenize_ifelse : the (condition, value) pairs, the default last
TokenizeIfElse(formula) == TokenizeLoop(<<>>, Strip(formula))

S_select == <<"n", "p", ".", "s", "e", "l", "e", "c", "t", "(", "[">>

S_vals == <<"]", ",", " ", "[">>

S_default == <<"]", ",", " ", "d", "e", "f", "a", "u", "l", "t", "=">>

\* Formula._convert_ifelse : ok = FALSE is the tokenizer's ValueError
ConvertIfElse(formula) ==
    LET t == TokenizeIfElse(formula)
    IN  IF ~t.ok THEN [ok |-> FALSE, text |-> <<>>]
        ELSE LET k     == Len(t.tokens) - 1
                 conds == [b \in 1..k |-> t.tokens[b][1]]
                 vals  == [b \in 1..k |-> t.tokens[b][2]]
                 dflt  == t.tokens[k + 1][2]
             IN  [ok |-> TRUE,
                  text |-> S_select \o Join(<<",", " ">>, conds) \o S_vals
                             \o Join(<<",", " ">>, vals) \o S_default \o dflt \o <<")">>]

(***************************************************************************)
(* npevaluate.build_where_expr.                                            *)
(***************************************************************************)
S_where == <<"w", "h", "e", "r", "e", "(">>

RECURSIVE BuildWhereFrom(_, _, _, _)
\* the loop over reversed(list(zip(conditions, values))) from pair k down
BuildWhereFrom(conditions, values, k, expr) ==
    IF k = 0 THEN expr
    ELSE BuildWhereFrom(conditions, values, k - 1,
                        S_where \o conditions[k] \o <<",", " ">> \o values[k]
                           \o <<",", " ">> \o expr \o <<")">>)

\* build_where_expr(conditions, values, default), default given as str(default)
BuildWhereExpr(conditions, values, default) ==
    BuildWhereFrom(conditions, values, Min(Len(conditions), Len(values)), default)

(***************************************************************************)
(* The evaluator: Python's eval of the rewritten text (Formula.evaluate,   *)
(* the call of eval), for the part of Python's expression syntax that the  *)
(* rewritten formulas use.  First the tokens, then the syntax tree, then   *)
(* the value.  "Unmodelled" marks text outside that part.                 *)
(***************************************************************************)
Letters == Lower \cup Upper \cup {"_"}

\* the operators and delimiters the rewritten formulas use
OpChars == {"(", ")", "[", "]", ",", ".", "=", ":"}

Keywords == { <<"i", "f">>, <<"e", "l", "s", "e">>, <<"i", "n">> }

\* the keywords of Python that the rewritten formulas do not use
OtherKeywords ==
    { <<"a", "n", "d">>, <<"o", "r">>, <<"n", "o", "t">>, <<"i", "s">>,
      <<"f", "o", "r">>, <<"l", "a", "m", "b", "d", "a">>, <<"a", "w", "a", "i", "t">>,
      <<"y", "i", "e", "l", "d">> }

\* the keywords that are values
ConstantWords == { <<"N", "o", "n", "e">>, <<"T", "r", "u", "e">>, <<"F", "a", "l", "s", "e">> }

\* after the digits of a number these letters may continue the literal or
\* start a keyword; any other letter is a syntax error
NumberSuffixes == {"e", "E", "j", "J", "x", "X", "o", "O", "b", "B", "_", ".",
                   "i", "a", "n", "f", "l"}

\* a name made of these letters only, followed by a quote, is a string prefix
StringPrefixLetters == {"b", "B", "r", "R", "u", "U", "f", "F"}

Tok(ty, s) == [ty |-> ty, s |-> s]

\* the index of the first ch of s at or after i, or -1
IndexOfFrom(s, i, ch) ==
    IF \E j \in i..(Len(s) - 1) : s[j + 1] = ch
    THEN First({j \in i..(Len(s) - 1) : s[j + 1] = ch})
    ELSE -1

\* the lexer at index i with the tokens read so far; done when it has
\* stopped, with the error if any
LexAt(i, toks) == [i |-> i, toks |-> toks, err |-> "", done |-> FALSE]

LexEnd(err, toks) == [i |-> 0, toks |-> toks, err |-> err, done |-> TRUE]

\* one step of the lexer over s: the next token, or the end
LexStep(s, st) ==
    LET i    == st.i
        toks == st.toks
    IN
    IF st.done THEN st
    ELSE IF i >= Len(s) THEN LexEnd("", toks)
    ELSE LET ch == s[i + 1]
         IN
         IF ch \in {" ", "\t"} THEN LexAt(i + 1, toks)
         ELSE IF ch \in Letters
         THEN LET n    == RunLen(s, i, WordChars)
                  word == Slice(s, i, i + n)
              IN  IF CharAt(s, i + n) \in Quotes
                     /\ \A k \in 1..n : word[k] \in StringPrefixLetters
                  THEN LexEnd("Unmodelled", toks)
                  ELSE IF word \in OtherKeywords THEN LexEnd("Unmodelled", toks)
                  ELSE LexAt(i + n,
                               Append(toks, Tok(IF word \in Keywords THEN "kw"
                                                ELSE IF word \in ConstantWords THEN "const"
                                                ELSE "name", word)))
         ELSE IF ch \in Digits
         THEN LET n   == RunLen(s, i, Digits)
                  num == Slice(s, i, i + n)
                  nx  == CharAt(s, i + n)
              IN  IF nx \in NumberSuffixes THEN LexEnd("Unmodelled", toks)
                  ELSE IF nx \in Letters THEN LexEnd("SyntaxError", toks)
                  ELSE IF n > 1 /\ num[1] = "0" /\ \E k \in 1..n : num[k] # "0"
                  THEN LexEnd("SyntaxError", toks)
                  ELSE LexAt(i + n, Append(toks, Tok("num", num)))
         ELSE IF ch \in Quotes
         THEN LET j == IndexOfFrom(s, i + 1, ch)
              IN  IF j < 0 THEN LexEnd("SyntaxError", toks)
                  ELSE LexAt(j + 1, Append(toks, Tok("str", Slice(s, i + 1, j))))
         ELSE IF ch = "." /\ CharAt(s, i + 1) \in Digits \cup {"."}
         THEN LexEnd("Unmodelled", toks)
         ELSE IF ch \in OpChars /\ ~(ch \in {"=", ":"} /\ CharAt(s, i + 1) = "=")
         THEN LexAt(i + 1, Append(toks, Tok("op", <<ch>>)))
         ELSE LexEnd("Unmodelled", toks)

RECURSIVE LexRun(_, _, _)
\* n steps of the lexer
LexRun(s, st, n) ==
    IF n = 0 THEN st
    ELSE IF n = 1 THEN LexStep(s, st)
    ELSE LET half == LexRun(s, st, n \div 2)
         IN  IF half.done THEN half ELSE LexRun(s, half, n - (n \div 2))

\* the tokens of the text s: every step but the last reads a character
Lex(s) == LexRun(s, LexAt(0, <<>>), Len(s) + 1)

Node(op, s, kids, kws) == [op |-> op, s |-> s, kids |-> kids, kws |-> kws]

NoNode == Node("none", <<>>, <<>>, <<>>)

\* the parser before token p: mode says what it expects there, node is the
\* tree just read, stack what it is in the middle of; mode "done" is the
\* end, with the error if any
Go(p, mode, node, stack) ==
    [p |-> p, mode |-> mode, node |-> node, stack |-> stack, err |-> ""]

\* the parser's result: the error, the tree, the index of the next token
Parsed(err, node, pos) ==
    [p |-> pos, mode |-> "done", node |-> node, stack |-> <<>>, err |-> err]

Failed(err, pos) == Parsed(err, NoNode, pos)

\* token p of toks is the operator or keyword s
TokIs(toks, p, ty, s) == p <= Len(toks) /\ toks[p].ty = ty /\ toks[p].s = s

TokTy(toks, p) == IF p <= Len(toks) THEN toks[p].ty ELSE "end"

RECURSIVE StrRun(_, _)
\* the number of adjacent string literals from token p on
StrRun(toks, p) == IF TokTy(toks, p) = "str" THEN 1 + StrRun(toks, p + 1) ELSE 0

\* what the parser is in the middle of: k names the construct, node and
\* node2 are its parts read so far, acc the items or arguments read so far,
\* kwn the keywords read so far, kw the keyword of the argument being read
Frame(k, node, node2, acc, kwn, kw) ==
    [k |-> k, node |-> node, node2 |-> node2, acc |-> acc, kwn |-> kwn, kw |-> kw]

Push(stack, f) == <<f>> \o stack

\* the call node of a finished argument list: the arguments in acc are the
\* positional ones followed by the Len(kwn) keyword ones
CallNode(f) == Node("call", <<>>, <<f.node>> \o f.acc, f.kwn)

\* an omitted bound of a slice
NoneNode == Node("const", <<"N", "o", "n", "e">>, <<>>, <<>>)

\* base[lower:upper]
SliceNode(base, lower, upper) ==
    Node("sub", <<>>, <<base, Node("slice", <<>>, <<lower, upper>>, <<>>)>>, <<>>)

\* One step of the parser.  Its grammar is
\*   test:    compare ['if' compare 'else' test]
\*   compare: primary ['in' primary]
\*   primary: atom trailer*
\*   atom:    NUMBER | STRING+ | NAME | None | True | False
\*            | '(' test ')' | '[' [test (',' test)* [',']] ']'
\*   trailer: '.' NAME | '[' test ']' | '[' [test] ':' [test] ']'
\*            | '(' [arg (',' arg)* [',']] ')'
\*   arg:     test | NAME '=' test      (no positional one after a keyword one)
\* mode says what is expected at p: "atom" an atom, "arg" an argument,
\* "trailer" the trailers of node, "test" what follows the finished test node.
PStep(toks, c) ==
    LET p     == c.p
        mode  == c.mode
        node  == c.node
        stack == c.stack
    IN
    CASE mode = "done" -> c
      [] mode = "atom" ->
            LET ty == TokTy(toks, p)
            IN  IF ty = "num" \/ ty = "name" \/ ty = "const"
                THEN Go(p + 1, "trailer", Node(ty, toks[p].s, <<>>, <<>>), stack)
                ELSE IF ty = "str"
                THEN LET n == StrRun(toks, p)
                     IN  Go(p + n, "trailer",
                              Node("str", Concat([k \in 1..n |-> toks[p + k - 1].s]), <<>>, <<>>),
                              stack)
                ELSE IF TokIs(toks, p, "op", <<"(">>)
                THEN IF TokIs(toks, p + 1, "op", <<")">>) THEN Failed("Unmodelled", p)
                     ELSE Go(p + 1, "atom", NoNode,
                               Push(stack, Frame("paren", NoNode, NoNode, <<>>, <<>>, <<>>)))
                ELSE IF TokIs(toks, p, "op", <<"[">>)
                THEN IF TokIs(toks, p + 1, "op", <<"]">>)
                     THEN Go(p + 2, "trailer", Node("list", <<>>, <<>>, <<>>), stack)
                     ELSE Go(p + 1, "atom", NoNode,
                               Push(stack, Frame("list", NoNode, NoNode, <<>>, <<>>, <<>>)))
                ELSE Failed("SyntaxError", p)
      [] mode = "arg" ->
            LET f    == stack[1]
                iskw == TokTy(toks, p) = "name" /\ TokIs(toks, p + 1, "op", <<"=">>)
            IN  IF iskw /\ \E k \in 1..Len(f.kwn) : f.kwn[k] = toks[p].s
                THEN Failed("SyntaxError", p)
                ELSE IF iskw
                THEN Go(p + 2, "atom", NoNode,
                          Push(Tail(stack), [f EXCEPT !.kw = toks[p].s]))
                ELSE IF f.kwn # <<>> THEN Failed("SyntaxError", p)
                ELSE Go(p, "atom", NoNode, Push(Tail(stack), [f EXCEPT !.kw = <<>>]))
      [] mode = "trailer" ->
            IF TokIs(toks, p, "op", <<".">>)
            THEN IF TokTy(toks, p + 1) = "name"
                 THEN Go(p + 2, "trailer", Node("attr", toks[p + 1].s, <<node>>, <<>>),
                           stack)
                 ELSE Failed("SyntaxError", p + 1)
            ELSE IF TokIs(toks, p, "op", <<"[">>)
            THEN IF TokIs(toks, p + 1, "op", <<":">>)
                 THEN IF TokIs(toks, p + 2, "op", <<"]">>)
                      THEN Go(p + 3, "trailer", SliceNode(node, NoneNode, NoneNode), stack)
                      ELSE IF TokIs(toks, p + 2, "op", <<":">>) \/ TokIs(toks, p + 2, "op", <<",">>)
                      THEN Failed("Unmodelled", p + 2)
                      ELSE Go(p + 2, "atom", NoNode,
                                Push(stack, Frame("slice", node, NoneNode, <<>>, <<>>, <<>>)))
                 ELSE Go(p + 1, "atom", NoNode,
                           Push(stack, Frame("sub", node, NoNode, <<>>, <<>>, <<>>)))
            ELSE IF TokIs(toks, p, "op", <<"(">>)
            THEN IF TokIs(toks, p + 1, "op", <<")">>)
                 THEN Go(p + 2, "trailer", Node("call", <<>>, <<node>>, <<>>), stack)
                 ELSE Go(p + 1, "arg", NoNode,
                           Push(stack, Frame("call", node, NoNode, <<>>, <<>>, <<>>)))
            \* the primary is complete
            ELSE IF stack # <<>> /\ stack[1].k = "in"
            THEN Go(p, "trailer", Node("in", <<>>, <<stack[1].node, node>>, <<>>),
                      Tail(stack))
            ELSE IF TokIs(toks, p, "kw", <<"i", "n">>)
            THEN IF node.op = "in" THEN Failed("Unmodelled", p)
                 ELSE Go(p + 1, "atom", NoNode,
                           Push(stack, Frame("in", node, NoNode, <<>>, <<>>, <<>>)))
            ELSE IF stack # <<>> /\ stack[1].k = "if_cond"
            THEN IF TokIs(toks, p, "kw", <<"e", "l", "s", "e">>)
                 THEN Go(p + 1, "atom", NoNode,
                           Push(Tail(stack),
                                Frame("if_else", stack[1].node, node, <<>>, <<>>, <<>>)))
                 ELSE Failed("SyntaxError", p)
            ELSE IF TokIs(toks, p, "kw", <<"i", "f">>)
            THEN Go(p + 1, "atom", NoNode,
                      Push(stack, Frame("if_cond", node, NoNode, <<>>, <<>>, <<>>)))
            ELSE Go(p, "test", node, stack)
      [] mode = "test" ->
            IF stack = <<>> THEN Parsed("", node, p)
            ELSE LET f    == stack[1]
                     rest == Tail(stack)
                     more == Frame(f.k, f.node, f.node2, Append(f.acc, node),
                                   IF f.kw # <<>> THEN Append(f.kwn, f.kw) ELSE f.kwn, <<>>)
                 IN
                 CASE f.k = "if_else" ->
                        Go(p, "test", Node("ifexp", <<>>, <<f.node, f.node2, node>>, <<>>),
                             rest)
                   [] f.k = "paren" ->
                        IF TokIs(toks, p, "op", <<")">>)
                        THEN Go(p + 1, "trailer", node, rest)
                        ELSE IF TokIs(toks, p, "op", <<",">>) THEN Failed("Unmodelled", p)
                        ELSE Failed("SyntaxError", p)
                   [] f.k = "sub" ->
                        IF TokIs(toks, p, "op", <<"]">>)
                        THEN Go(p + 1, "trailer",
                                  Node("sub", <<>>, <<f.node, node>>, <<>>), rest)
                        ELSE IF TokIs(toks, p, "op", <<":">>) /\ TokIs(toks, p + 1, "op", <<"]">>)
                        THEN Go(p + 2, "trailer", SliceNode(f.node, node, NoneNode), rest)
                        ELSE IF TokIs(toks, p, "op", <<":">>)
                                /\ (TokIs(toks, p + 1, "op", <<":">>)
                                      \/ TokIs(toks, p + 1, "op", <<",">>))
                        THEN Failed("Unmodelled", p + 1)
                        ELSE IF TokIs(toks, p, "op", <<":">>)
                        THEN Go(p + 1, "atom", NoNode,
                                  Push(rest, Frame("slice", f.node, node, <<>>, <<>>, <<>>)))
                        ELSE IF TokIs(toks, p, "op", <<",">>) THEN Failed("Unmodelled", p)
                        ELSE Failed("SyntaxError", p)
                   [] f.k = "slice" ->
                        IF TokIs(toks, p, "op", <<"]">>)
                        THEN Go(p + 1, "trailer", SliceNode(f.node, f.node2, node), rest)
                        ELSE IF TokIs(toks, p, "op", <<":">>) \/ TokIs(toks, p, "op", <<",">>)
                        THEN Failed("Unmodelled", p)
                        ELSE Failed("SyntaxError", p)
                   [] f.k = "list" ->
                        IF TokIs(toks, p, "op", <<"]">>)
                        THEN Go(p + 1, "trailer", Node("list", <<>>, more.acc, <<>>), rest)
                        ELSE IF TokIs(toks, p, "op", <<",">>) /\ TokIs(toks, p + 1, "op", <<"]">>)
                        THEN Go(p + 2, "trailer", Node("list", <<>>, more.acc, <<>>), rest)
                        ELSE IF TokIs(toks, p, "op", <<",">>)
                        THEN Go(p + 1, "atom", NoNode, Push(rest, more))
                        ELSE Failed("SyntaxError", p)
                   [] f.k = "call" ->
                        IF TokIs(toks, p, "op", <<")">>)
                        THEN Go(p + 1, "trailer", CallNode(more), rest)
                        ELSE IF TokIs(toks, p, "op", <<",">>) /\ TokIs(toks, p + 1, "op", <<")">>)
                        THEN Go(p + 2, "trailer", CallNode(more), rest)
                        ELSE IF TokIs(toks, p, "op", <<",">>)
                        THEN Go(p + 1, "arg", NoNode, Push(rest, more))
                        ELSE Failed("SyntaxError", p)

RECURSIVE PRun(_, _, _)
\* n steps of the parser
PRun(toks, c, n) ==
    IF n = 0 THEN c
    ELSE IF n = 1 THEN PStep(toks, c)
    ELSE LET half == PRun(toks, c, n \div 2)
         IN  IF half.mode = "done" THEN half ELSE PRun(toks, half, n - (n \div 2))

\* the syntax tree of the text s, as eval compiles it: a token is read, or
\* a construct begun or ended, in every step, so the steps suffice
Parse(s) ==
    LET lx == Lex(s)
    IN  IF lx.err # "" THEN Failed(lx.err, 0)
        ELSE LET r == PRun(lx.toks, Go(1, "atom", NoNode, <<>>), 4 * Len(lx.toks) + 4)
             IN  IF r.err # "" THEN r
                 ELSE IF r.p > Len(lx.toks) THEN r
                 ELSE IF TokIs(lx.toks, r.p, "op", <<",">>) THEN Failed("Unmodelled", r.p)
                 ELSE Failed("SyntaxError", r.p)

(***************************************************************************)
(* Values, tables and the objects of the evaluator's namespace.            *)
(***************************************************************************)
\* one cell of a column: an integer, a string, a boolean or the missing marker
VInt(n) == [t |-> "int", n |-> n, s |-> <<>>]

VStr(s) == [t |-> "str", n |-> 0, s |-> s]

VBool(b) == [t |-> "bool", n |-> IF b THEN 1 ELSE 0, s |-> <<>>]

VNA == [t |-> "na", n |-> 0, s |-> <<>>]

\* one column of a table
Column(name, dtype, cells) == [name |-> name, dtype |-> dtype, cells |-> cells]

\* a DataFrame: n rows and the columns in their order
Table(n, cols) == [n |-> n, cols |-> cols]

ColumnNames(tbl) == [k \in 1..Len(tbl.cols) |-> tbl.cols[k].name]

\* the position of the column called name, or 0
ColumnIndex(tbl, name) ==
    LET hits == {k \in 1..Len(tbl.cols) : tbl.cols[k].name = name}
    IN  IF hits = {} THEN 0 ELSE CHOOSE k \in hits : TRUE

\* df[name] = column : an existing column is overwritten in its place, a new
\* one is appended
SetColumn(tbl, name, dtype, cells) ==
    LET k == ColumnIndex(tbl, name)
    IN  IF k = 0 THEN Table(tbl.n, Append(tbl.cols, Column(name, dtype, cells)))
        ELSE Table(tbl.n, [tbl.cols EXCEPT ![k] = Column(name, dtype, cells)])

\* an object of the evaluator: k is its kind
Obj(k, cell, dtype, cells, items) ==
    [k |-> k, cell |-> cell, dtype |-> dtype, cells |-> cells, items |-> items]

Scalar(cell) == Obj("scalar", cell, "", <<>>, <<>>)

Series(dtype, cells) == Obj("series", VNA, dtype, cells, <<>>)

Array(dtype, cells) == Obj("array", VNA, dtype, cells, <<>>)

Plain(k) == Obj(k, VNA, "", <<>>, <<>>)

ListObj(items) == Obj("list", VNA, "", <<>>, items)

\* the result of evaluating in the table tbl: the exception's class ("" for
\* none), the value, and the table as the evaluation leaves it
Value(obj, tbl) == [err |-> "", obj |-> obj, tbl |-> tbl]

Raise(err, tbl) == [err |-> err, obj |-> Plain("none"), tbl |-> tbl]

DigitVal(ch) ==
    CASE ch = "0" -> 0 [] ch = "1" -> 1 [] ch = "2" -> 2 [] ch = "3" -> 3 [] ch = "4" -> 4
      [] ch = "5" -> 5 [] ch = "6" -> 6 [] ch = "7" -> 7 [] ch = "8" -> 8 [] ch = "9" -> 9

DigitChar(d) ==
    CASE d = 0 -> "0" [] d = 1 -> "1" [] d = 2 -> "2" [] d = 3 -> "3" [] d = 4 -> "4"
      [] d = 5 -> "5" [] d = 6 -> "6" [] d = 7 -> "7" [] d = 8 -> "8" [] d = 9 -> "9"

RECURSIVE IntOf(_)
\* the integer a digit string writes
IntOf(ds) ==
    IF ds = <<>> THEN 0 ELSE 10 * IntOf(SubSeq(ds, 1, Len(ds) - 1)) + DigitVal(ds[Len(ds)])

RECURSIVE DigitsOf(_)
\* str(n) for n >= 0
DigitsOf(n) == IF n < 10 THEN <<DigitChar(n)>> ELSE DigitsOf(n \div 10) \o <<DigitChar(n % 10)>>

\* what astype(str) makes of a cell
AsStr(cell) ==
    CASE cell.t = "str"  -> cell.s
      [] cell.t = "int"  -> IF cell.n < 0 THEN <<"-">> \o DigitsOf(-cell.n) ELSE DigitsOf(cell.n)
      [] cell.t = "bool" -> IF cell.n = 1 THEN <<"T", "r", "u", "e">>
                            ELSE <<"F", "a", "l", "s", "e">>
      [] cell.t = "na"   -> <<"n", "a", "n">>

\* a faulty predicate: .str.strip().str.lower() == "null"
IsNullCellStripped(cell) ==
    \/ cell.t = "na"
    \/ Strip(AsStr(cell)) = <<>>
    \/ ToLower(Strip(AsStr(cell))) = <<"n", "u", "l", "l">>

\* Formula.is_null on one cell
IsNullCell(cell) ==
    \/ cell.t = "na"
    \/ Strip(AsStr(cell)) = <<>>
    \/ ToLower(AsStr(cell)) = <<"n", "u", "l", "l">>

\* Formula.is_null : the mask of a column
IsNull(cells) == [r \in 1..Len(cells) |-> VBool(IsNullCell(cells[r]))]

\* Formula.is_not_null : ~ of the mask
IsNotNull(cells) == [r \in 1..Len(cells) |-> VBool(IsNull(cells)[r].n = 0)]

(***************************************************************************)
(* numpy's select, as the rewritten text calls it.                         *)
(***************************************************************************)
IsVector(obj) == obj.k \in {"series", "array"}

\* a choice or a default that numpy reads as an integer or boolean array
IsNumeric(obj) ==
    \/ obj.k = "scalar" /\ obj.cell.t \in {"int", "bool"}
    \/ IsVector(obj) /\ obj.dtype \in {"int", "bool"}

\* the dtype numpy gives an object read as an array
DTypeOf(obj) == IF obj.k = "scalar" THEN obj.cell.t ELSE obj.dtype

\* element r of an object broadcast to the rows
CellAt(obj, r) == IF obj.k = "scalar" THEN obj.cell ELSE obj.cells[r]

\* a cell stored in an array of the given dtype
Cast(cell, dtype) == IF dtype = "int" THEN VInt(cell.n) ELSE cell

RECURSIVE CopyBranches(_, _, _, _)
\* select's loop over the reversed lists: np.copyto(result, choice, where=cond)
\* for the branches b, b - 1, .., 1 in this order
CopyBranches(conds, choices, b, result) ==
    IF b = 0 THEN result
    ELSE CopyBranches(conds, choices, b - 1,
                      [r \in 1..Len(result) |->
                          IF CellAt(conds[b], r).n = 1 THEN CellAt(choices[b], r)
                          ELSE result[r]])

\* np.select(condlist, choicelist, default) over the rows of tbl
NpSelect(conds, choices, default, tbl) ==
    LET all == Append(choices, default)
    IN  IF Len(conds) # Len(choices) THEN Raise("ValueError", tbl)
        ELSE IF Len(conds) = 0 THEN Raise("ValueError", tbl)
        ELSE IF \E k \in 1..Len(all) : ~IsNumeric(all[k]) THEN Raise("Unmodelled", tbl)
        ELSE IF \E k \in 1..Len(conds) : ~(conds[k].k = "scalar" \/ IsVector(conds[k]))
        THEN Raise("Unmodelled", tbl)
        ELSE IF \E k \in 1..Len(conds) : DTypeOf(conds[k]) # "bool" THEN Raise("TypeError", tbl)
        ELSE IF \A k \in 1..Len(conds) : ~IsVector(conds[k]) THEN Raise("Unmodelled", tbl)
        ELSE LET dtype == IF \E k \in 1..Len(all) : DTypeOf(all[k]) = "int"
                          THEN "int" ELSE "bool"
                 full  == [r \in 1..tbl.n |-> CellAt(default, r)]
                 res   == CopyBranches(conds, choices, Len(conds), full)
             IN  Value(Array(dtype, [r \in 1..tbl.n |-> Cast(res[r], dtype)]), tbl)

(***************************************************************************)
(* pandas, as far as the rewritten text reaches it.                        *)
(***************************************************************************)
\* a bound of a slice: None or a number
IsBound(obj) == obj.k = "none" \/ (obj.k = "scalar" /\ obj.cell.t = "int")

\* Series.str.slice(start, stop) on one cell: s[start:stop]; a cell that is
\* no string gives the missing marker
StrSliceCell(cell, start, stop) ==
    IF cell.t # "str" THEN VNA
    ELSE LET lo == IF start.k = "none" THEN 0 ELSE start.cell.n
             hi == IF stop.k = "none" THEN Len(cell.s) ELSE stop.cell.n
         IN  VStr(Slice(cell.s, Min(lo, Len(cell.s)), hi))

\* Series.str.upper() and Series.str.contains(pat), pat without special
\* characters, on one cell; a cell that is no string gives the missing marker
StrMethodCell(name, cell, args) ==
    IF cell.t # "str" THEN VNA
    ELSE IF name = <<"u", "p", "p", "e", "r">> THEN VStr(ToUpper(cell.s))
    ELSE VBool(Contains(cell.s, args[1].cell.s))

\* series[start:stop] : the rows at the positions start..stop-1, which keep
\* their index labels; first is the label of the first of them
RowSlice(obj, start, stop) ==
    LET lo == IF start.k = "none" THEN 0 ELSE Min(start.cell.n, Len(obj.cells))
        hi == IF stop.k = "none" THEN Len(obj.cells) ELSE Min(stop.cell.n, Len(obj.cells))
    IN  Obj("rows", VInt(lo), obj.dtype, Slice(obj.cells, lo, hi), <<>>)

\* key in series : membership in the index 0..n-1, not in the values
InIndex(key, n) == key.cell.t = "int" /\ 0 <= key.cell.n /\ key.cell.n < n

\* DataFrame.insert(loc, column, value) : the column is inserted in place
DfInsert(tbl, loc, name, cell) ==
    Table(tbl.n,
          SubSeq(tbl.cols, 1, loc)
             \o << Column(name, IF cell.t \in {"int", "bool"} THEN cell.t ELSE "object",
                          [r \in 1..tbl.n |-> cell]) >>
             \o SubSeq(tbl.cols, loc + 1, Len(tbl.cols)))

(***************************************************************************)
(* The value of a syntax tree in the namespace of Formula.evaluate:        *)
(* eval(text, {}, {"df": df, "np": np, "Formula": Formula}).               *)
(***************************************************************************)
S_df == <<"d", "f">>

S_np == <<"n", "p">>

S_Formula == <<"F", "o", "r", "m", "u", "l", "a">>

\* names of Python's builtins module (a part of them), which eval adds to
\* the empty globals
BuiltinNames ==
    { <<"l", "e", "n">>, <<"o", "p", "e", "n">>, <<"s", "t", "r">>,
      <<"_", "_", "i", "m", "p", "o", "r", "t", "_", "_">> }

\* bool(obj), or the error it raises
Truth(obj) ==
    CASE obj.k = "scalar" ->
            [err |-> IF obj.cell.t = "na" THEN "Unmodelled" ELSE "",
             b |-> IF obj.cell.t = "str" THEN obj.cell.s # <<>> ELSE obj.cell.n # 0]
      [] obj.k \in {"series", "df"} -> [err |-> "ValueError", b |-> FALSE]
      [] obj.k = "array" -> [err |-> "Unmodelled", b |-> FALSE]
      [] obj.k = "none" -> [err |-> "", b |-> FALSE]
      [] obj.k = "list" -> [err |-> "", b |-> obj.items # <<>>]
      [] OTHER -> [err |-> "", b |-> TRUE]

\* a call of func with the positional and keyword arguments
Call(func, args, kws, kwvals, tbl) ==
    IF func.k = "np.select"
    THEN IF Len(args) = 2 /\ kws = << <<"d", "e", "f", "a", "u", "l", "t">> >>
            /\ args[1].k = "list" /\ args[2].k = "list"
         THEN NpSelect(args[1].items, args[2].items, kwvals[1], tbl)
         ELSE Raise("Unmodelled", tbl)
    ELSE IF func.k \in {"is_null", "is_not_null"}
    THEN IF Len(args) = 1 /\ kws = <<>> /\ args[1].k = "series"
         THEN Value(Series("bool", IF func.k = "is_null" THEN IsNull(args[1].cells)
                                   ELSE IsNotNull(args[1].cells)), tbl)
         ELSE Raise("Unmodelled", tbl)
    ELSE IF func.k = "str.method" /\ func.cell.s = <<"s", "l", "i", "c", "e">>
    THEN IF Len(args) = 2 /\ kws = <<>> /\ IsBound(args[1]) /\ IsBound(args[2])
         THEN Value(Series("object", [r \in 1..Len(func.cells) |->
                                         StrSliceCell(func.cells[r], args[1], args[2])]), tbl)
         ELSE Raise("Unmodelled", tbl)
    ELSE IF func.k = "str.method"
            /\ \/ func.cell.s = <<"u", "p", "p", "e", "r">> /\ args = <<>> /\ kws = <<>>
               \/ /\ func.cell.s = <<"c", "o", "n", "t", "a", "i", "n", "s">>
                  /\ Len(args) = 1 /\ kws = <<>>
                  /\ args[1].k = "scalar" /\ args[1].cell.t = "str"
                  /\ \A c \in 1..Len(args[1].cell.s) : args[1].cell.s[c] \in WordChars
    THEN Value(Series(IF args # <<>> /\ \A r \in 1..Len(func.cells) : func.cells[r].t = "str"
                      THEN "bool" ELSE "object",
                      [r \in 1..Len(func.cells) |->
                          StrMethodCell(func.cell.s, func.cells[r], args)]), tbl)
    ELSE IF func.k = "series.isna"
    THEN IF args = <<>> /\ kws = <<>>
         THEN Value(Series("bool", [r \in 1..Len(func.cells) |->
                                       VBool(func.cells[r].t = "na")]), tbl)
         ELSE Raise("TypeError", tbl)
    ELSE IF func.k = "df.insert"
    THEN IF Len(args) = 3 /\ kws = <<>>
            /\ args[1].k = "scalar" /\ args[1].cell.t = "int"
            /\ args[2].k = "scalar" /\ args[2].cell.t = "str"
            /\ args[3].k = "scalar" /\ args[3].cell.t # "na"
         THEN IF ColumnIndex(tbl, args[2].cell.s) # 0 THEN Raise("ValueError", tbl)
              ELSE IF args[1].cell.n > Len(tbl.cols) THEN Raise("IndexError", tbl)
              ELSE Value(Plain("none"),
                         DfInsert(tbl, args[1].cell.n, args[2].cell.s, args[3].cell))
         ELSE Raise("Unmodelled", tbl)
    \* len(obj) of the builtins: the number of rows of a table or of a column
    ELSE IF func.k = "builtin" /\ func.cell.s = <<"l", "e", "n">>
    THEN IF Len(args) = 1 /\ kws = <<>> /\ args[1].k = "df"
         THEN Value(Scalar(VInt(tbl.n)), tbl)
         ELSE IF Len(args) = 1 /\ kws = <<>> /\ IsVector(args[1])
         THEN Value(Scalar(VInt(Len(args[1].cells))), tbl)
         ELSE Raise("Unmodelled", tbl)
    ELSE IF func.k \in {"scalar", "none", "list", "series", "array", "df", "np", "str"}
    THEN Raise("TypeError", tbl)
    ELSE Raise("Unmodelled", tbl)

\* getattr(obj, name)
GetAttr(obj, name, tbl) ==
    IF obj.k = "np" /\ name = <<"s", "e", "l", "e", "c", "t">>
    THEN Value(Plain("np.select"), tbl)
    ELSE IF obj.k = "Formula" /\ name = <<"i", "s", "_", "n", "u", "l", "l">>
    THEN Value(Plain("is_null"), tbl)
    ELSE IF obj.k = "Formula" /\ name = <<"i", "s", "_", "n", "o", "t", "_", "n", "u", "l", "l">>
    THEN Value(Plain("is_not_null"), tbl)
    ELSE IF obj.k = "df" /\ name = <<"i", "n", "s", "e", "r", "t">>
    THEN Value(Plain("df.insert"), tbl)
    ELSE IF obj.k = "series" /\ name = <<"i", "s", "n", "a">>
    THEN Value(Obj("series.isna", VNA, obj.dtype, obj.cells, <<>>), tbl)
    \* a column has none of the string methods itself
    ELSE IF obj.k = "series" /\ name \in StrMethods
    THEN Raise("AttributeError", tbl)
    \* the .str accessor exists for columns of strings only
    ELSE IF obj.k = "series" /\ name = <<"s", "t", "r">>
    THEN IF obj.dtype = "object" THEN Value(Obj("str", VNA, obj.dtype, obj.cells, <<>>), tbl)
         ELSE Raise("AttributeError", tbl)
    ELSE IF obj.k = "str" /\ name \in StrMethods
    THEN Value(Obj("str.method", VStr(name), obj.dtype, obj.cells, <<>>), tbl)
    ELSE IF obj.k \in {"scalar", "none", "list"} /\ name \in StrMethods \cup {<<"s", "t", "r">>}
            /\ ~(obj.k = "scalar" /\ obj.cell.t = "str")
    THEN Raise("AttributeError", tbl)
    ELSE Raise("Unmodelled", tbl)

\* obj[index]
GetItem(obj, index, tbl) ==
    IF obj.k = "df" /\ index.k = "scalar" /\ index.cell.t = "str"
    THEN LET k == ColumnIndex(tbl, index.cell.s)
         IN  IF k = 0 THEN Raise("KeyError", tbl)
             ELSE Value(Series(tbl.cols[k].dtype, tbl.cols[k].cells), tbl)
    ELSE IF obj.k = "series" /\ index.k = "slice"
            /\ IsBound(index.items[1]) /\ IsBound(index.items[2])
    THEN Value(RowSlice(obj, index.items[1], index.items[2]), tbl)
    ELSE Raise("Unmodelled", tbl)

RECURSIVE Eval(_, _)
RECURSIVE EvalAll(_, _, _, _)

\* the values of kids[k..] after those in acc, or the first error
EvalAll(kids, k, acc, tbl) ==
    IF k > Len(kids) THEN [err |-> "", objs |-> acc, tbl |-> tbl]
    ELSE LET v == Eval(kids[k], tbl)
         IN  IF v.err # "" THEN [err |-> v.err, objs |-> acc, tbl |-> v.tbl]
             ELSE EvalAll(kids, k + 1, Append(acc, v.obj), v.tbl)

Eval(node, tbl) ==
    CASE node.op = "num" -> Value(Scalar(VInt(IntOf(node.s))), tbl)
      [] node.op = "str" -> Value(Scalar(VStr(node.s)), tbl)
      [] node.op = "const" ->
            IF node.s = S_None THEN Value(Plain("none"), tbl)
            ELSE Value(Scalar(VBool(node.s = <<"T", "r", "u", "e">>)), tbl)
      [] node.op = "name" ->
            IF node.s = S_df THEN Value(Plain("df"), tbl)
            ELSE IF node.s = S_np THEN Value(Plain("np"), tbl)
            ELSE IF node.s = S_Formula THEN Value(Plain("Formula"), tbl)
            ELSE IF node.s \in BuiltinNames
            THEN Value(Obj("builtin", VStr(node.s), "", <<>>, <<>>), tbl)
            ELSE Raise("NameError", tbl)
      [] node.op \in {"list", "attr", "sub", "call", "slice", "in"} ->
            LET vs == EvalAll(node.kids, 1, <<>>, tbl)
                np == Len(node.kids) - 1 - Len(node.kws)
            IN  IF vs.err # "" THEN Raise(vs.err, vs.tbl)
                ELSE IF node.op = "list" THEN Value(ListObj(vs.objs), vs.tbl)
                ELSE IF node.op = "slice"
                THEN Value(Obj("slice", VNA, "", <<>>, vs.objs), vs.tbl)
                ELSE IF node.op = "in"
                THEN IF vs.objs[1].k = "scalar" /\ vs.objs[1].cell.t # "na"
                        /\ vs.objs[2].k = "series"
                     THEN Value(Scalar(VBool(InIndex(vs.objs[1], Len(vs.objs[2].cells)))),
                                vs.tbl)
                     ELSE Raise("Unmodelled", vs.tbl)
                ELSE IF node.op = "attr" THEN GetAttr(vs.objs[1], node.s, vs.tbl)
                ELSE IF node.op = "sub" THEN GetItem(vs.objs[1], vs.objs[2], vs.tbl)
                ELSE Call(vs.objs[1], SubSeq(vs.objs, 2, np + 1), node.kws,
                          SubSeq(vs.objs, np + 2, Len(vs.objs)), vs.tbl)
      [] node.op = "ifexp" ->
            LET c == Eval(node.kids[2], tbl)
            IN  IF c.err # "" THEN c
                ELSE LET t == Truth(c.obj)
                     IN  IF t.err # "" THEN Raise(t.err, c.tbl)
                         ELSE IF t.b THEN Eval(node.kids[1], c.tbl)
                         ELSE Eval(node.kids[3], c.tbl)

\* eval(text, {}, local_dict) : the error class, the value, the table
PyEval(text, tbl) ==
    LET tree == Parse(text)
    IN  IF tree.err # "" THEN Raise(tree.err, tbl) ELSE Eval(tree.node, tbl)

\* self.df[output_col] = value : the error class and the table
Assign(tbl, name, obj) ==
    CASE obj.k = "scalar" ->
            [err |-> "",
             tbl |-> SetColumn(tbl, name,
                               IF obj.cell.t \in {"int", "bool"} THEN obj.cell.t ELSE "object",
                               [r \in 1..tbl.n |-> obj.cell])]
      [] obj.k = "none" ->
            [err |-> "", tbl |-> SetColumn(tbl, name, "object", [r \in 1..tbl.n |-> VNA])]
      [] IsVector(obj) /\ Len(obj.cells) = tbl.n ->
            [err |-> "", tbl |-> SetColumn(tbl, name, obj.dtype, obj.cells)]
      \* rows of a column are aligned on their index labels: the rows of the
      \* table that have no label among them get the missing marker
      [] obj.k = "rows" /\ obj.dtype = "object" ->
            [err |-> "",
             tbl |-> SetColumn(tbl, name, "object",
                               [r \in 1..tbl.n |->
                                   IF r - obj.cell.n \in 1..Len(obj.cells)
                                   THEN obj.cells[r - obj.cell.n] ELSE VNA])]
      [] OTHER -> [err |-> "Unmodelled", tbl |-> tbl]

(***************************************************************************)
(* The inputs: tables and formulas.                                        *)
(***************************************************************************)
T_a == <<"a">>

T_b == <<"b">>

T_c == <<"c">>

T_d == <<"d">>

T_r == <<"r">>

T_zz == <<"z", "z">>

\* identifiers of which a column name is a proper part
T_c1 == <<"c", "1">>

T_ab == <<"a", "b">>

\* line q of the truth table of the boolean columns a and b: every
\* combination of the two occurs among four consecutive lines
TruthA(q) == ((q - 1) \div 2) % 2 = 0

TruthB(q) == (q - 1) % 2 = 0

\* the table of n rows with the boolean columns a, b, which hold the lines of
\* the truth table from the given start on, and the integer column c
ChainTable(n, start) ==
    Table(n, << Column(T_a, "bool", [r \in 1..n |-> VBool(TruthA(start + r - 1))]),
                Column(T_b, "bool", [r \in 1..n |-> VBool(TruthB(start + r - 1))]),
                Column(T_c, "int", [r \in 1..n |-> VInt(10 * r)]) >>)

\* cells a null check must tell apart
NullCells ==
    << VNA, VStr(<<>>), VStr(<<" ">>), VStr(<<"n", "u", "l", "l">>),
       VStr(<<"N", "U", "L", "L">>), VStr(<<"N", "u", "l", "l">>),
       VStr(<<" ", "n", "u", "l", "l">>), VStr(<<"x">>), VInt(0),
       VStr(<<"n", "a", "n">>), VStr(<<" ", "\t">>) >>

\* the table of n rows whose one column d holds the cells from the given start on
NullTable(n, start) ==
    Table(n, << Column(T_d, "object",
                       [r \in 1..n |-> NullCells[((start + r - 2) % Len(NullCells)) + 1]]) >>)

\* the table of n rows and no column
EmptyTable(n) == Table(n, <<>>)

\* a column name of two words, the first of which is a column name as well
T_a_b == <<"a", " ", "b">>

\* cells of a column of strings
TextCells == << VStr(<<"x", "a">>), VStr(<<>>), VStr(<<"y", "b", "x">>) >>

\* the table of n rows with the integer column a and the string column
\* 'a b', listed in this order or, if flip, in the other
SpaceTable(n, flip) ==
    Table(n, IF flip
             THEN << Column(T_a_b, "object", [r \in 1..n |-> TextCells[((r - 1) % 3) + 1]]),
                     Column(T_a, "int", [r \in 1..n |-> VInt(r)]) >>
             ELSE << Column(T_a, "int", [r \in 1..n |-> VInt(r)]),
                     Column(T_a_b, "object", [r \in 1..n |-> TextCells[((r - 1) % 3) + 1]]) >>)

Tables ==
    {ChainTable(n, st) : n \in 1..MaxRows, st \in 1..4}
      \cup {ChainTable(0, 1)}
      \cup {NullTable(n, st) : n \in 1..MaxRows, st \in 1..Len(NullCells)}
      \cup {EmptyTable(n) : n \in 0..MaxRows}
      \cup {SpaceTable(n, flip) : n \in 1..MaxRows, flip \in BOOLEAN}

\* calls of a method on what stands before them: one of the string methods
\* without and with an argument, and one that is no string method
S_call_upper == <<".", "u", "p", "p", "e", "r", "(", ")">>

S_call_contains ==
    <<".", "c", "o", "n", "t", "a", "i", "n", "s", "(", "'", "x", "'", ")">>

S_call_isna == <<".", "i", "s", "n", "a", "(", ")">>

\* the operator spelling of containment, before the column:  'x' in
S_x_in == <<"'", "x", "'", " ", "i", "n", " ">>

MethodCalls == {S_call_upper, S_call_contains, S_call_isna}

\* the bounds of the slices tried: omitted, or a number
SliceStarts == { <<>>, <<"0">>, <<"1">> }

SliceStops == { <<>>, <<"2">> }

\* ref[lo:hi]
SliceText(ref, lo, hi) == ref \o <<"[">> \o lo \o <<":">> \o hi \o <<"]">>

\* the call of upper with an argument, up to the argument
S_upper_of == <<".", "u", "p", "p", "e", "r", "(">>

\* a formula is described by its shape and the texts of its values (the
\* default last) and conditions
Desc(shape, vals, conds) == [shape |-> shape, vals |-> vals, conds |-> conds]

RECURSIVE FlatChain(_, _)
\* V1 if C1 else V2 if C2 else .. else D
FlatChain(vals, conds) ==
    IF conds = <<>> THEN vals[1]
    ELSE vals[1] \o S_if \o conds[1] \o S_else \o FlatChain(Tail(vals), Tail(conds))

\* the text of a described formula
Build(d) ==
    CASE d.shape = "flat" -> FlatChain(d.vals, d.conds)
      \* V1 if C1 else (V2 if C2 else .. else D)
      [] d.shape = "tail_paren" ->
            d.vals[1] \o S_if \o d.conds[1] \o S_else
               \o <<"(">> \o FlatChain(Tail(d.vals), Tail(d.conds)) \o <<")">>
      \* (V1 if C1 else V2) if C2 else .. else D
      [] d.shape = "head_paren" ->
            <<"(">> \o FlatChain(SubSeq(d.vals, 1, 2), SubSeq(d.conds, 1, 1)) \o <<")">>
               \o S_if \o d.conds[2]
               \o S_else \o FlatChain(SubSeq(d.vals, 3, Len(d.vals)),
                                      SubSeq(d.conds, 3, Len(d.conds)))
      \* the chain without its last " else D"
      [] d.shape = "truncated" ->
            FlatChain(SubSeq(d.vals, 1, Len(d.conds)),
                      SubSeq(d.conds, 1, Len(d.conds) - 1))
               \o S_if \o d.conds[Len(d.conds)]
      \* V1 if (C1 else V2 if C2 else .. else D)
      [] d.shape = "paren_else" ->
            d.vals[1] \o S_if \o <<"(">> \o d.conds[1] \o S_else
               \o FlatChain(Tail(d.vals), Tail(d.conds)) \o <<")">>
      \* V1[V2:V3] : a slice of the column V1 with the bounds V2 and V3
      [] d.shape = "slice" -> SliceText(d.vals[1], d.vals[2], d.vals[3])
      \* 'x' in V1 : the operator spelling of V1.contains('x')
      [] d.shape = "in" -> S_x_in \o d.vals[1]
      \* V1 if (C1[1:] else V2 if C2 else .. else D : a condition that opens
      \* a parenthesis before a sliced column and never closes it
      [] d.shape = "paren_slice" ->
            d.vals[1] \o S_if \o <<"(">> \o d.conds[1] \o <<"[", "1", ":", "]">> \o S_else
               \o FlatChain(Tail(d.vals), Tail(d.conds))

\* the descriptions with k branches over the given value and condition texts
Descs(shape, k, vals, conds) ==
    {Desc(shape, vs, cs) : vs \in [1..(k + 1) -> vals], cs \in [1..k -> conds]}

ChainVals == { <<"1">>, T_c }

ChainConds == { T_a, T_b }

\* a formula that calls a method of the table: df.insert(0, 'z', 1)
S_insert ==
    <<"d", "f", ".", "i", "n", "s", "e", "r", "t", "(", "0", ",", " ",
      "'", "z", "'", ",", " ", "1", ")">>

\* a formula that calls a builtin of Python: len(df)
S_len_df == <<"l", "e", "n", "(", "d", "f", ")">>

ConstTexts == { <<"1">>, <<"2", "2">>, <<"'", "x", "'">>, <<"'", "a", "'">> }

NullConds == { S_IsNull \o T_d \o <<")">>, S_IsNotNull \o T_d \o <<")">> }

\* the formulas tried on a table, by the columns it has
DescsFor(tbl) ==
    LET consts == Descs("flat", 0, ConstTexts, {})
    IN  IF ColumnNames(tbl) = <<T_a, T_b, T_c>>
        THEN consts
               \cup UNION {Descs("flat", k, ChainVals, ChainConds) : k \in 0..MaxBranches}
               \cup UNION {Descs("tail_paren", k, ChainVals, ChainConds) : k \in 2..MaxBranches}
               \cup UNION {Descs("head_paren", k, ChainVals, ChainConds) : k \in 2..MaxBranches}
               \cup UNION {Descs("truncated", k, ChainVals, ChainConds) : k \in 1..MaxBranches}
               \cup UNION {Descs("paren_else", k, ChainVals, ChainConds) : k \in 1..MaxBranches}
               \cup { Desc("flat", <<T_zz>>, <<>>),
                      Desc("flat", <<T_zz, <<"1">>>>, <<T_a>>),
                      Desc("flat", <<<<"1">>, <<"2">>>>, <<T_zz>>),
                      Desc("flat", <<<<"1">>, T_zz>>, <<T_b>>),
                      Desc("truncated", <<T_zz, <<"1">>>>, <<T_a>>),
                      Desc("paren_slice", <<<<"1">>, <<"2">>>>, <<T_c>>),
                      Desc("flat", <<S_insert>>, <<>>),
                      Desc("flat", <<S_len_df>>, <<>>),
                      Desc("flat", <<T_c1>>, <<>>),
                      \* chains with an empty value, condition or default
                      Desc("flat", <<<<>>, <<"1">>>>, <<T_a>>),
                      Desc("flat", <<<<"1">>, <<"2">>>>, <<<<>>>>),
                      Desc("flat", <<<<"1">>, <<>>>>, <<T_a>>),
                      Desc("flat", <<<<"1">>, <<>>, <<"2">>>>, <<T_a, T_b>>),
                      Desc("flat", <<T_c1, T_ab>>, <<T_a>>) }
        ELSE IF ColumnNames(tbl) = <<T_d>>
        THEN consts \cup Descs("flat", 0, NullConds, {})
               \cup Descs("flat", 1, { <<"1">>, <<"2">> }, NullConds)
               \cup { Desc("slice", <<T_d, lo, hi>>, <<>>) : lo \in SliceStarts, hi \in SliceStops }
               \cup { Desc("flat", <<<<"(">> \o T_d \o <<")", "[", "1", ":", "]">>>>, <<>>) }
               \* a slice inside parentheses, (d[1:]), and a slice as the
               \* argument of a string method, d.upper(d[1:])
               \cup { Desc("flat", <<<<"(">> \o SliceText(T_d, <<"1">>, <<>>) \o <<")">>>>, <<>>),
                      Desc("flat", <<T_d \o S_upper_of \o SliceText(T_d, <<"1">>, <<>>) \o <<")">>>>,
                           <<>>) }
               \cup { Desc("flat", <<T_d \o m>>, <<>>) : m \in MethodCalls }
               \cup { Desc("flat", <<T_zz \o S_call_upper>>, <<>>),
                      Desc("in", <<T_d>>, <<>>) }
        ELSE IF Len(tbl.cols) = 2
        THEN consts \cup { Desc("flat", <<T_a>>, <<>>), Desc("flat", <<T_a_b>>, <<>>) }
               \cup { Desc("flat", <<T_a \o S_call_upper>>, <<>>),
                      Desc("flat", <<T_a_b \o S_call_upper>>, <<>>),
                      Desc("slice", <<T_a, <<"1">>, <<>>>>, <<>>),
                      Desc("slice", <<T_a_b, <<"1">>, <<>>>>, <<>>) }
        ELSE consts

\* the output column names tried: a new column, and one that chain tables have
OutputCols == { T_r, T_c }

(***************************************************************************)
(* One call of Formula.evaluate on the table of a Formula object.          *)
(***************************************************************************)
VARIABLES
    df,            \* self.df
    df_at_call,    \* self.df as it was when evaluate was called
    desc,          \* the description of the formula of the call
    formula,       \* the argument formula
    output_col,    \* the argument output_col
    safe_formula,  \* the local safe_formula
    pc,            \* the statement of evaluate that runs next
    raised,        \* the exception that left evaluate
    trace          \* the stages run so far, each with its input and output

vars == <<df, df_at_call, desc, formula, output_col, safe_formula, pc, raised, trace>>

(***************************************************************************)
(* The module state of task_manager in the service process, and the        *)
(* worker processes it has started.                                        *)
(***************************************************************************)
VARIABLES
    task_registry,  \* the keys of task_registry: the task ids with a process
    shared_output,  \* the Manager dict: task id -> its entry, or NoEntry
    worker,         \* task id -> where the task's process is in etl_worker
    step_of,        \* task id -> the step_name its process was started with
    call,           \* the handler call in progress, the line it is at, and
                    \* whether the task's process had ended when it began
    fetched,        \* the entry the call got from the proxy by shared_output[task_id]
    reply           \* what the last finished call returned

tvars == <<task_registry, shared_output, worker, step_of, call, fetched, reply>>

(***************************************************************************)
(* main1: the ProcessManager and the ConnectionManager of the service, and *)
(* the worker processes of the ProcessManager.                             *)
(***************************************************************************)
VARIABLES
    loaded,              \* the module the service process has loaded
    process_registry,    \* the Manager dict: process id -> its info, or NoInfo
    progress_queues,     \* the keys of self.progress_queues in the service
    queue,               \* process id -> the items in its progress Queue
    active_processes,    \* the keys of self.active_processes
    proc,                \* process id -> where its process is in _execute_process
    emitted,             \* process id -> the number of updates its worker has put
    in_start,            \* the start_process calls between line 566 and line 572
    presp,               \* what the last finished ProcessManager call gave
    active_connections,  \* ConnectionManager: process id -> its key and list
    holder,              \* websocket -> the process id its endpoint holds it for
    cresp                \* the last ConnectionManager call and how it ended

pvars == <<process_registry, progress_queues, queue, active_processes, proc,
           emitted, in_start, presp>>

cvars == <<active_connections, holder, cresp>>

\* the variables of the services
svars == <<tvars, loaded, pvars, cvars>>

\* every task id a caller may pass: MaxTasks ids that uuid4 may draw, and 0,
\* a string that is no uuid
TaskIds == 1..MaxTasks
AnyIds == 0..MaxTasks

\* no entry under a key of the Manager dict
NoEntry == [status |-> "", output |-> ""]

Entry(status, output) == [status |-> status, output |-> output]

\* no handler is running
Idle == [op |-> "", id |-> 0, at |-> 0, late |-> FALSE]

NoReply == [op |-> "", id |-> 0, status |-> "", output |-> ""]

\* init_globals has run and no task has been started
TaskManagerStarted ==
    /\ task_registry = {}
    /\ shared_output = [id \in TaskIds |-> NoEntry]
    /\ worker = [id \in TaskIds |-> "unstarted"]
    /\ step_of = [id \in TaskIds |-> ""]
    /\ call = Idle
    /\ fetched = NoEntry
    /\ reply = NoReply

\* the process ids uuid4 may draw, and with 0 an id it never draws
ProcIds == 1..MaxProcs
AnyProcIds == 0..MaxProcs

\* the websockets
Sockets == 1..MaxSockets

\* no entry under a key of process_registry
NoInfo == [status |-> "", result |-> "", error |-> "", progress |-> 0]

\* a process_info: of its keys the status, the result, the error and the
\* progress, which is None (0) in every dict the code stores
Info(status, result, error) ==
    [status |-> status, result |-> result, error |-> error, progress |-> 0]

NoResp == [op |-> "", id |-> 0, code |-> 0, status |-> "", progress |-> 0]

\* the process id is no key of active_connections
NoKey == [key |-> FALSE, list |-> <<>>]

\* process_manager = ProcessManager() and a ConnectionManager() have been
\* constructed and nothing has been called
Main1Constructed ==
    /\ process_registry = [id \in ProcIds |-> NoInfo]
    /\ progress_queues = {}
    /\ queue = [id \in ProcIds |-> <<>>]
    /\ active_processes = {}
    /\ proc = [id \in ProcIds |-> "unstarted"]
    /\ emitted = [id \in ProcIds |-> 0]
    /\ in_start = 0
    /\ presp = NoResp
    /\ active_connections = [id \in ProcIds |-> NoKey]
    /\ holder = [ws \in Sockets |-> 0]
    /\ cresp = [op |-> "", ws |-> 0, id |-> 0, raised |-> ""]

NoError == [cls |-> "", msg |-> <<>>, text |-> <<>>]

\* an exception: its class, its message where the source writes one, and the
\* source text a SyntaxError carries
Error(cls, msg, text) == [cls |-> cls, msg |-> msg, text |-> text]

S_invalid ==
    <<"I", "n", "v", "a", "l", "i", "d", " ", "i", "n", "l", "i", "n", "e", " ",
      "i", "f", " ", "e", "x", "p", "r", "e", "s", "s", "i", "o", "n">>

Ran(stage, inp, out) == [stage |-> stage, inp |-> inp, out |-> out]

\* Formula(df) has been constructed
Init ==
    /\ df \in Tables
    /\ df_at_call = df
    /\ desc = Desc("none", <<>>, <<>>)
    /\ formula = <<>>
    /\ output_col = <<>>
    /\ safe_formula = <<>>
    /\ pc = "idle"
    /\ raised = NoError
    /\ trace = <<>>
    /\ TaskManagerStarted
    /\ loaded = "Fi"
    /\ Main1Constructed

\* the call evaluate(formula, output_col)
Evaluate ==
    /\ pc = "idle"
    /\ \E d \in DescsFor(df), out \in OutputCols :
          /\ desc' = d
          /\ formula' = Build(d)
          /\ output_col' = out
    /\ df_at_call' = df
    /\ pc' = "replace_column_refs"
    /\ UNCHANGED <<df, safe_formula, raised, trace>>
    /\ UNCHANGED svars

\* a stage that rewrites text to text without raising
Rewrite(here, stage, inp, out, next) ==
    /\ pc = here
    /\ safe_formula' = out
    /\ trace' = Append(trace, Ran(stage, inp, out))
    /\ pc' = next
    /\ UNCHANGED <<df, df_at_call, desc, formula, output_col, raised>>
    /\ UNCHANGED svars

\* safe_formula = self._replace_column_refs(formula)
StepReplaceColumnRefs ==
    Rewrite("replace_column_refs", "ColumnResolver", formula,
            ReplaceColumnRefs(ColumnNames(df), formula), "process_null_checks")

\* a faulty evaluate: the call of _process_slices is left out
StepProcessNullChecksNoSlices ==
    Rewrite("process_null_checks", "NullPredicateRewriter", safe_formula,
            ProcessNullChecks(safe_formula), "process_str_methods")

\* safe_formula = self._process_null_checks(safe_formula)
StepProcessNullChecks ==
    Rewrite("process_null_checks", "NullPredicateRewriter", safe_formula,
            ProcessNullChecks(safe_formula), "process_slices")

\* safe_formula = self._process_slices(safe_formula)
StepProcessSlices ==
    Rewrite("process_slices", "SliceRewriter", safe_formula,
            ProcessSlices(safe_formula), "process_str_methods")

\* safe_formula = self._process_str_methods(safe_formula)
StepProcessStrMethods ==
    Rewrite("process_str_methods", "StringCapabilityBinder", safe_formula,
            ProcessStrMethods(safe_formula), "convert_ifelse")

\* a faulty evaluate: a chain that cannot be split is passed on as it is
StepConvertIfElseLenient ==
    /\ pc = "convert_ifelse"
    /\ pc' = "eval"
    /\ safe_formula' = IF Contains(safe_formula, S_if) /\ ConvertIfElse(safe_formula).ok
                       THEN ConvertIfElse(safe_formula).text ELSE safe_formula
    /\ trace' = Append(trace, Ran("ConditionalFlattener", safe_formula, safe_formula'))
    /\ UNCHANGED <<df, df_at_call, desc, formula, output_col, raised>>
    /\ UNCHANGED svars

\* if " if " in safe_formula: safe_formula = self._convert_ifelse(safe_formula)
StepConvertIfElse ==
    /\ pc = "convert_ifelse"
    /\ LET c == ConvertIfElse(safe_formula)
       IN  IF ~Contains(safe_formula, S_if)
           THEN /\ pc' = "eval"
                /\ trace' = Append(trace, Ran("ConditionalFlattener", safe_formula, safe_formula))
                /\ UNCHANGED <<safe_formula, raised>>
           ELSE IF c.ok
           THEN /\ pc' = "eval"
                /\ safe_formula' = c.text
                /\ trace' = Append(trace, Ran("ConditionalFlattener", safe_formula, c.text))
                /\ UNCHANGED raised
           ELSE /\ pc' = "raised"
                /\ raised' = Error("ValueError", S_invalid, <<>>)
                /\ trace' = Append(trace, Ran("ConditionalFlattener", safe_formula, <<>>))
                /\ UNCHANGED safe_formula
    /\ UNCHANGED <<df, df_at_call, desc, formula, output_col>>
    /\ UNCHANGED svars

\* the assignment of the value v.obj, if eval gave one
AssignResult(v) == IF v.err # "" THEN v ELSE Assign(v.tbl, output_col, v.obj)

\* the end of the statement, a the result of the assignment and v of eval
Finish(v, a) ==
    IF a.err # ""
    THEN /\ pc' = "raised"
         /\ raised' = Error(a.err, <<>>, IF a.err = "SyntaxError" THEN safe_formula ELSE <<>>)
         /\ df' = v.tbl
    ELSE /\ pc' = "returned"
         /\ df' = a.tbl
         /\ UNCHANGED raised

EvalAndAssign(v) == Finish(v, AssignResult(v))

\* self.df[output_col] = eval(safe_formula, {}, local_dict) ; return self.df
StepEval ==
    /\ pc = "eval"
    /\ EvalAndAssign(PyEval(safe_formula, df))
    /\ trace' = Append(trace, Ran("Evaluator", safe_formula, <<>>))
    /\ UNCHANGED <<df_at_call, desc, formula, output_col, safe_formula>>
    /\ UNCHANGED svars

Next ==
    \/ Evaluate
    \/ StepReplaceColumnRefs
    \/ StepProcessNullChecks
    \/ StepProcessSlices
    \/ StepProcessStrMethods
    \/ StepConvertIfElse
    \/ StepEval

Spec == Init /\ [][Next]_vars

\* every text the inputs lead to lies in the modelled part of Python
Modelled == raised.cls # "Unmodelled"

(***************************************************************************)
(* What the specification says of a call, in terms of the call's formula   *)
(* and of the table as it was when the call was made.                      *)
(***************************************************************************)
\* evaluate has returned or raised
Terminal == pc \in {"returned", "raised"}

\* the stage that ran last
LastStage == IF trace = <<>> THEN "" ELSE trace[Len(trace)].stage

\* the cells of the output column
OutCells == df.cols[ColumnIndex(df, output_col)].cells

\* a null value as the specification defines it: the missing marker, a
\* string of nothing but whitespace, or the word null in any case; the
\* string form of a number or of a boolean is neither
SpecNull(cell) ==
    \/ cell.t = "na"
    \/ cell.t = "str" /\ \A k \in 1..Len(cell.s) : cell.s[k] \in Whitespace
    \/ cell.t = "str" /\ Len(cell.s) = 4
         /\ cell.s[1] \in {"n", "N"} /\ cell.s[2] \in {"u", "U"}
         /\ cell.s[3] \in {"l", "L"} /\ cell.s[4] \in {"l", "L"}

\* the cell of the column called name in row r
CellOf(tbl, name, r) == tbl.cols[ColumnIndex(tbl, name)].cells[r]

\* the value in row r of a branch value: a column or a number
ValAt(text, tbl, r) ==
    IF ColumnIndex(tbl, text) # 0 THEN CellOf(tbl, text, r) ELSE VInt(IntOf(text))

\* the truth in row r of a condition: a boolean column or a null check of d
CondAt(text, tbl, r) ==
    IF text = S_IsNull \o T_d \o <<")">> THEN SpecNull(CellOf(tbl, T_d, r))
    ELSE IF text = S_IsNotNull \o T_d \o <<")">> THEN ~SpecNull(CellOf(tbl, T_d, r))
    ELSE CellOf(tbl, text, r).n = 1

RECURSIVE Selected(_, _, _, _)
\* the value in row r of the branch list: that of the first branch whose
\* condition is true, the default (the last of vals) when none is
Selected(vals, conds, tbl, r) ==
    IF conds = <<>> THEN ValAt(vals[1], tbl, r)
    ELSE IF CondAt(conds[1], tbl, r) THEN ValAt(vals[1], tbl, r)
    ELSE Selected(Tail(vals), Tail(conds), tbl, r)

\* the description is a branch list over the columns of the table
IsBranchList(d) ==
    /\ Len(d.conds) >= 1
    /\ Len(d.vals) = Len(d.conds) + 1
    /\ \A k \in 1..Len(d.conds) : d.conds[k] \in ChainConds \cup NullConds
    /\ \A k \in 1..Len(d.vals) : d.vals[k] \in ChainVals \cup { <<"1">>, <<"2">> }

\* the output column holds in every row what the branch list selects
OutputIsSelection ==
    \A r \in 1..df_at_call.n : OutCells[r] = Selected(desc.vals, desc.conds, df_at_call, r)

\* the formula holds a depth-0 WHEN with no depth-0 OTHERWISE after it
Malformed(f) ==
    \E i \in 0..(Len(f) - 1) :
        /\ StartsAt(f, i, S_if) /\ Depth(f, i) = 0
        /\ \A j \in (i + 1)..(Len(f) - 1) : ~(StartsAt(f, j, S_else) /\ Depth(f, j) = 0)

\* evaluate has raised the malformed-conditional error
RaisedMalformed == pc = "raised" /\ raised.cls = "ValueError" /\ raised.msg = S_invalid

\* C1: a chain with a parenthesized tail, A if C1 else (B if C2 else D),
\* evaluates successfully and gives in every row the value of the expanded
\* chain A if C1 else B if C2 else D.  The code raises instead.
C1_ParenTailSameAsExpanded ==
    (Terminal /\ desc.shape = "tail_paren" /\ IsBranchList(desc))
        => (pc = "returned" /\ OutputIsSelection)

\* the text the flattener is to give for a chain whose remainder after the
\* first branch has no depth-0 WHEN: one branch, the remainder the default
OneBranchSelect(inp) ==
    S_select \o Strip(SplitIf(inp).cond) \o S_vals \o Strip(SplitIf(inp).value)
       \o S_default \o Strip(SplitIf(inp).rest) \o <<")">>

\* C2: the flattener sees WHEN and OTHERWISE at depth 0 only, and a
\* remainder with no further depth-0 WHEN is the default value even when it
\* holds the keywords inside parentheses.  For A if C1 else (B if C2 else D)
\* the flattener is to emit the one branch (C1, A) and the default
\* (B if C2 else D); the code raises on the remainder.
C2_ParenRemainderIsDefault ==
    \A k \in 1..Len(trace) :
        (trace[k].stage = "ConditionalFlattener" /\ desc.shape = "tail_paren")
            => trace[k].out = OneBranchSelect(trace[k].inp)

\* the name a mask or value array is given before build_where_expr is called
ArrayName(prefix, k) == prefix \o DigitsOf(k - 1)

S_mask == <<"_", "m", "a", "s", "k", "_">>

S_val == <<"_", "v", "a", "l", "_">>

\* the argument lists that are handed to build_where_expr for the branch
\* list d: a mask name per condition, an array name per column value, the
\* text of a number otherwise
WhereText(d, tbl) ==
    BuildWhereExpr([k \in 1..Len(d.conds) |-> ArrayName(S_mask, k)],
                   [k \in 1..Len(d.conds) |->
                       IF ColumnIndex(tbl, d.vals[k]) # 0 THEN ArrayName(S_val, k)
                       ELSE d.vals[k]],
                   IF ColumnIndex(tbl, d.vals[Len(d.vals)]) # 0
                   THEN ArrayName(S_val, Len(d.vals)) ELSE d.vals[Len(d.vals)])

RECURSIVE WhereAt(_, _, _, _)
\* the value in row r of a where expression over the arrays of d
WhereAt(node, d, tbl, r) ==
    IF node.op = "call"
    THEN IF WhereAt(node.kids[2], d, tbl, r).n = 1
         THEN WhereAt(node.kids[3], d, tbl, r)
         ELSE WhereAt(node.kids[4], d, tbl, r)
    ELSE IF node.op = "num" THEN VInt(IntOf(node.s))
    ELSE IF \E k \in 1..Len(d.conds) : node.s = ArrayName(S_mask, k)
    THEN VBool(CondAt(d.conds[CHOOSE k \in 1..Len(d.conds) : node.s = ArrayName(S_mask, k)],
                      tbl, r))
    ELSE ValAt(d.vals[CHOOSE k \in 1..Len(d.vals) : node.s = ArrayName(S_val, k)], tbl, r)

\* the where expression of the branch list selects the same in every row
WhereIsSelection ==
    /\ Parse(WhereText(desc, df_at_call)).err = ""
    /\ \A r \in 1..df_at_call.n :
          WhereAt(Parse(WhereText(desc, df_at_call)).node, desc, df_at_call, r)
             = Selected(desc.vals, desc.conds, df_at_call, r)

\* C3: for every branch list and every row the value written is that of the
\* first branch in source order whose condition is true in the row, and the
\* default when none is; np.select over the flattener's lists and the nested
\* where expression of build_where_expr both select so.
C3_FirstTrueBranchWins ==
    (pc = "returned" /\ desc.shape = "flat" /\ IsBranchList(desc))
        => (OutputIsSelection /\ WhereIsSelection)

\* C3 happens: a chain of two branches has returned, and in some row both
\* conditions are true and the two branch values differ
C3_Witness ==
    /\ pc = "returned" /\ desc.shape = "flat" /\ IsBranchList(desc)
    /\ Len(desc.conds) = 2
    /\ \E r \in 1..df_at_call.n :
          /\ CondAt(desc.conds[1], df_at_call, r)
          /\ CondAt(desc.conds[2], df_at_call, r)
          /\ ValAt(desc.vals[1], df_at_call, r) # ValAt(desc.vals[2], df_at_call, r)
          /\ OutCells[r] = ValAt(desc.vals[1], df_at_call, r)

\* C4: every chain with a depth-0 WHEN that no depth-0 OTHERWISE follows
\* makes evaluate raise ValueError "Invalid inline if expression" and leaves
\* the table as it was.  The slice rewriter removes an opening parenthesis
\* before a sliced column, which lifts a later OTHERWISE to depth 0, and the
\* chain is flattened without that error.
C4_MalformedChainRaises ==
    (Terminal /\ Malformed(formula)) => (RaisedMalformed /\ df = df_at_call)

\* the stages in the order of the calls in evaluate
CodeOrder ==
    <<"ColumnResolver", "NullPredicateRewriter", "SliceRewriter",
      "StringCapabilityBinder", "ConditionalFlattener", "Evaluator">>

\* the stages in the order of the specification's list
SpecOrder ==
    <<"ColumnResolver", "NullPredicateRewriter", "StringCapabilityBinder",
      "SliceRewriter", "ConditionalFlattener", "Evaluator">>

\* the names of the stages run so far, in the order in which they ran
StageNames == [k \in 1..Len(trace) |-> trace[k].stage]

OutExisted == ColumnIndex(df_at_call, output_col) # 0

\* C6: a call that returns has changed the table in the column output_col
\* only: the column is overwritten where it stood or appended as the last
\* one, every other column keeps its name, position and cells, and the row
\* count is the same.  A formula that calls df.insert returns with one more
\* column than that.
C6_OnlyOutputColumnChanges ==
    pc = "returned" =>
        /\ df.n = df_at_call.n
        /\ df.cols[ColumnIndex(df, output_col)].name = output_col
        /\ IF OutExisted
           THEN /\ Len(df.cols) = Len(df_at_call.cols)
                /\ ColumnIndex(df, output_col) = ColumnIndex(df_at_call, output_col)
                /\ \A k \in 1..Len(df.cols) :
                      k # ColumnIndex(df, output_col) => df.cols[k] = df_at_call.cols[k]
           ELSE /\ Len(df.cols) = Len(df_at_call.cols) + 1
                /\ ColumnIndex(df, output_col) = Len(df.cols)
                /\ SubSeq(df.cols, 1, Len(df_at_call.cols)) = df_at_call.cols

\* the description is a formula that is one scalar constant
IsConstant(d) == d.shape = "flat" /\ d.conds = <<>> /\ d.vals[1] \in ConstTexts

\* the value of the text of a constant: a quoted string or a number
ConstCell(text) ==
    IF text[1] \in Quotes THEN VStr(SubSeq(text, 2, Len(text) - 1)) ELSE VInt(IntOf(text))

\* C7: for every table and every formula that is one scalar constant k, the
\* call returns and the output column holds k in each of the n rows.  On a
\* table without columns, and for a string constant in which a column name
\* stands as a word, the resolver rewrites the constant and eval raises.
C7_ConstantFillsColumn ==
    (Terminal /\ IsConstant(desc))
        => /\ pc = "returned"
           /\ Len(OutCells) = df_at_call.n
           /\ \A r \in 1..df_at_call.n : OutCells[r] = ConstCell(desc.vals[1])

\* the description is a null check of the column d alone
IsNullCheck(d) == d.shape = "flat" /\ d.conds = <<>> /\ d.vals[1] \in NullConds

\* C8: IsNull(v) is true exactly when v is the missing marker, or its string
\* form is empty once surrounding whitespace is removed, or its string form
\* is the word null in any case; IsNotNull(v) is its negation, so that
\* exactly one of the two holds of every value.
C8_NullPredicate ==
    (pc = "returned" /\ IsNullCheck(desc))
        => /\ \A r \in 1..df_at_call.n :
                 OutCells[r] = VBool(CondAt(desc.vals[1], df_at_call, r))
           /\ \A r \in 1..df_at_call.n :
                 IsNull(df_at_call.cols[1].cells)[r].n
                    + IsNotNull(df_at_call.cols[1].cells)[r].n = 1

\* C8 happens: IsNull(d) has been evaluated on a column that holds "Null",
\* which is null, and " null", which is not
C8_Witness ==
    /\ pc = "returned" /\ IsNullCheck(desc)
    /\ desc.vals[1] = S_IsNull \o T_d \o <<")">>
    /\ \E r1, r2 \in 1..df_at_call.n :
          /\ CellOf(df_at_call, T_d, r1) = VStr(<<"N", "u", "l", "l">>)
          /\ OutCells[r1] = VBool(TRUE)
          /\ CellOf(df_at_call, T_d, r2) = VStr(<<" ", "n", "u", "l", "l">>)
          /\ OutCells[r2] = VBool(FALSE)

\* the formula refers to the name zz, which is no column and is not bound
\* in the evaluator's namespace
MentionsUnknown(d) ==
    \/ \E k \in 1..Len(d.vals) : d.vals[k] = T_zz
    \/ \E k \in 1..Len(d.conds) : d.conds[k] = T_zz

OutputNotWritten ==
    /\ ColumnIndex(df, output_col) = ColumnIndex(df_at_call, output_col)
    /\ OutExisted => df.cols[ColumnIndex(df, output_col)]
                        = df_at_call.cols[ColumnIndex(df_at_call, output_col)]

NamesBuiltin(f) ==
    \E i \in 0..(Len(f) - 1), b \in BuiltinNames :
        /\ StartsAt(f, i, b)
        /\ WordBoundary(f, i) /\ WordBoundary(f, i + Len(b))

\* C11: while the evaluator runs, only the table, the vector library and the
\* null predicate resolve; any other name, a builtin of the host language
\* among them, is unresolved and cannot be called.  eval is given empty
\* globals, to which Python adds its builtins: len(df) is called and returns.
C11_OnlyNamespaceNamesResolve ==
    (Terminal /\ NamesBuiltin(formula)) => (pc = "raised" /\ raised.cls = "NameError")

\* every column name of the table is one word
WordNames(tbl) ==
    \A k \in 1..Len(tbl.cols) :
        /\ tbl.cols[k].name # <<>>
        /\ \A c \in 1..Len(tbl.cols[k].name) : tbl.cols[k].name[c] \in WordChars

\* a whole word starts at index j of s and is the name of a column
IsColumnWord(cols, s, j) ==
    /\ CharAt(s, j) \in WordChars
    /\ CharAt(s, j - 1) \notin WordChars
    /\ \E k \in 1..Len(cols) : cols[k] = Slice(s, j, j + RunLen(s, j, WordChars))

RECURSIVE ResolveWords(_, _, _)
\* the text s from index i on, with every whole word that is a column name
\* replaced by its field reference and every other character as it is
ResolveWords(cols, s, i) ==
    LET hits == {j \in i..(Len(s) - 1) : IsColumnWord(cols, s, j)}
    IN  IF hits = {} THEN SliceFrom(s, i)
        ELSE Slice(s, i, First(hits))
                \o ColumnRef(Slice(s, First(hits),
                                   First(hits) + RunLen(s, First(hits), WordChars)))
                \o ResolveWords(cols, s, First(hits) + RunLen(s, First(hits), WordChars))

\* C12: the column resolver replaces every whole-word occurrence of a column
\* name by df['name'] and leaves every other character as it is, identifiers
\* that only contain a column name (c1, ab for the columns a, b, c) among
\* them.  On a table without columns the pattern matches the empty word and
\* the resolver inserts df[''] at every word boundary.
C12_WholeWordsReplaced ==
    \A k \in 1..Len(trace) :
        (trace[k].stage = "ColumnResolver" /\ WordNames(df_at_call))
            => trace[k].out = ResolveWords(ColumnNames(df_at_call), trace[k].inp, 0)

\* the formula of the call is the name of a column of the table, alone
IsColumnAlone(f, tbl) == \E k \in 1..Len(tbl.cols) : tbl.cols[k].name = f

\* C13: for every table and every column name c of it, whatever the other
\* names and their order, resolving the formula c gives the one reference
\* df['c'], and the evaluator binds it: the call returns the column.  With
\* the columns a and 'a b' in this order the resolver replaces the a of
\* "a b" and eval raises SyntaxError on  df['a'] b.
C13_ColumnAloneBinds ==
    (Terminal /\ IsColumnAlone(formula, df_at_call))
        => /\ trace[1].out = ColumnRef(formula)
           /\ pc = "returned"
           /\ OutCells = df_at_call.cols[ColumnIndex(df_at_call, formula)].cells

\* the column k of cols and the string method m for which the call
\* df['name'].m(  of a resolved column reference starts at index j of s
RefCallsAt(cols, s, j) ==
    {km \in (1..Len(cols)) \X StrMethods :
        StartsAt(s, j, ColumnRef(cols[km[1]]) \o <<".">> \o km[2] \o <<"(">>)}

RECURSIVE BindCalls(_, _, _)
\* the text s from index i on, with .str put between the reference and the
\* method of every such call, and every other character as it is
BindCalls(cols, s, i) ==
    LET hits == {j \in i..(Len(s) - 1) : RefCallsAt(cols, s, j) # {}}
    IN  IF hits = {} THEN SliceFrom(s, i)
        ELSE LET km == CHOOSE x \in RefCallsAt(cols, s, First(hits)) : TRUE
             IN  Slice(s, i, First(hits) + Len(ColumnRef(cols[km[1]])))
                    \o <<".", "s", "t", "r">>
                    \o BindCalls(cols, s, First(hits) + Len(ColumnRef(cols[km[1]])))

\* C14: for every call  ref.m(  of a resolved column reference the binder
\* inserts .str before m exactly when m is a string method, and changes no
\* other text.  The binder's pattern takes a reference with a one-word name
\* only: the call df['a b'].upper(  is left as it is.
C14_StringMethodsBound ==
    \A k \in 1..Len(trace) :
        trace[k].stage = "StringCapabilityBinder"
            => trace[k].out = BindCalls(ColumnNames(df_at_call), trace[k].inp, 0)

\* C15: the binder rewrites the operator spelling of containment, 'x' in d,
\* to the string-view call that it rewrites the method spelling
\* d.contains('x') to.  No stage of the code looks for the operator: the text
\* passes unchanged, and eval tests membership in the column's index.
C15_InSpellingBoundAsContains ==
    \A k \in 1..Len(trace) :
        (trace[k].stage = "StringCapabilityBinder" /\ desc.shape = "in")
            => trace[k].out = ProcessStrMethods(ColumnRef(desc.vals[1]) \o S_call_contains)

\* a bound as the slice call takes it: None for an omitted one
BoundText(b) == IF b = <<>> THEN S_None ELSE b

\* ref.str.slice(lo, hi)
StrSliceText(ref, lo, hi) ==
    ref \o <<".", "s", "t", "r", ".", "s", "l", "i", "c", "e", "(">>
        \o BoundText(lo) \o <<",", " ">> \o BoundText(hi) \o <<")">>

\* the characters of s from position lo up to hi, an omitted lo being 0 and
\* an omitted hi the length of s
Substring(s, lo, hi) ==
    SubSeq(s, (IF lo = <<>> THEN 0 ELSE IntOf(lo)) + 1,
              IF hi = <<>> THEN Len(s) ELSE Min(IntOf(hi), Len(s)))

\* C16: for every resolved column reference r and bounds that are numbers
\* or omitted, the slice rewriter turns r[start:stop] into
\* r.str.slice(start, stop) with None for an omitted bound, and on a column
\* of strings the call returns the characters from start (or 0) to stop (or
\* the end) of every string.  The rewriter's pattern takes a reference with
\* a one-word name only: df['a b'][1:] is left as it is, and eval slices the
\* rows of the column.
C16_SliceBecomesStrSlice ==
    \A k \in 1..Len(trace) :
        (/\ trace[k].stage = "SliceRewriter"
         /\ desc.shape = "slice"
         /\ trace[k].inp = SliceText(ColumnRef(desc.vals[1]), desc.vals[2], desc.vals[3]))
            => /\ trace[k].out = StrSliceText(ColumnRef(desc.vals[1]), desc.vals[2], desc.vals[3])
               /\ (Terminal /\ df_at_call.cols[ColumnIndex(df_at_call, desc.vals[1])].dtype
                                  = "object")
                     => /\ pc = "returned"
                        /\ \A r \in 1..df_at_call.n :
                              CellOf(df_at_call, desc.vals[1], r).t = "str"
                                 => OutCells[r]
                                      = VStr(Substring(CellOf(df_at_call, desc.vals[1], r).s,
                                                       desc.vals[2], desc.vals[3]))

\* the indices of s where a WHEN stands at depth 0
DepthZeroIfs(s) == {i \in 0..(Len(s) - 1) : StartsAt(s, i, S_if) /\ Depth(s, i) = 0}

RECURSIVE BranchesOf(_, _, _)
\* the branch list of a chain as the specification splits it: a branch for
\* every depth-0 WHEN, in source order, and the remainder that has no
\* depth-0 WHEN as the default; conds and vals are those read so far
BranchesOf(conds, vals, remaining) ==
    IF DepthZeroIfs(remaining) = {}
    THEN [ok |-> TRUE, conds |-> conds, vals |-> vals, default |-> Strip(remaining)]
    ELSE IF ~SplitIf(remaining).ok
    THEN [ok |-> FALSE, conds |-> <<>>, vals |-> <<>>, default |-> <<>>]
    ELSE BranchesOf(Append(conds, Strip(SplitIf(remaining).cond)),
                    Append(vals, Strip(SplitIf(remaining).value)),
                    SplitIf(remaining).rest)

\* the selection expression over a branch list
SelectText(b) ==
    S_select \o Join(<<",", " ">>, b.conds) \o S_vals \o Join(<<",", " ">>, b.vals)
       \o S_default \o b.default \o <<")">>

\* C17: for a chain with k depth-0 WHEN branches the flattener emits one
\* selection expression whose condition list and value list hold the k
\* conditions and the k values in source order and whose default is the
\* final remainder, and drops or doubles no other text.  For a remainder in
\* parentheses that holds a WHEN the code emits nothing and raises.
C17_SelectionHasEveryBranch ==
    \A k \in 1..Len(trace) :
        (/\ trace[k].stage = "ConditionalFlattener"
         /\ DepthZeroIfs(Strip(trace[k].inp)) # {}
         /\ BranchesOf(<<>>, <<>>, Strip(trace[k].inp)).ok)
            => /\ Len(BranchesOf(<<>>, <<>>, Strip(trace[k].inp)).conds)
                     = Cardinality(DepthZeroIfs(Strip(trace[k].inp)))
               /\ trace[k].out = SelectText(BranchesOf(<<>>, <<>>, Strip(trace[k].inp)))

\* the chain has a branch that is empty: a value, a condition or the default
HasEmptyBranch(d) ==
    /\ d.shape = "flat" /\ d.conds # <<>>
    /\ \/ \E k \in 1..Len(d.vals) : d.vals[k] = <<>>
       \/ \E k \in 1..Len(d.conds) : d.conds[k] = <<>>

\* C18: a chain with an empty branch is rejected by the flattener with the
\* malformed-conditional error and is not emitted into the selection
\* expression.  The code checks no branch for emptiness: the empty text is
\* emitted, and the call fails in eval with another error.
C18_EmptyBranchRejected ==
    (Terminal /\ HasEmptyBranch(desc))
        => (RaisedMalformed /\ LastStage = "ConditionalFlattener")

(***************************************************************************)
(* task_manager: the handlers run_etl_task, get_task_status and stop_task  *)
(* of the service process, one call at a time, and the worker processes,   *)
(* whose steps fall between the statements of a handler.                    *)
(***************************************************************************)
\* the keys of etl_map
etl_map == {"extract", "transform", "load"}

\* the step names a caller passes: a key of etl_map and a name that is none
StepNames == {"extract", "nosuch"}

\* p.is_alive() of the task's process
IsAlive(id) == worker[id] \in {"running", "raising", "wrote"}

\* d.get(task_id, {"status": "unknown"}) on the Manager dict
GetOrUnknown(d, id) ==
    IF id \in TaskIds /\ d[id] # NoEntry THEN d[id] ELSE Entry("unknown", "")

\* the handlers call neither the formula engine nor main1
NoEvaluate == UNCHANGED <<vars, loaded, pvars, cvars>>

\* a handler returns
Return(status, output) ==
    /\ reply' = [op |-> call.op, id |-> call.id, status |-> status, output |-> output]
    /\ call' = Idle

\* the handler moves on to the statement at line n
Goto(n) ==
    /\ call' = [call EXCEPT !.at = n]
    /\ UNCHANGED reply

\* run_etl_task(step_name, params): uuid4 draws an id not drawn before; the
\* entry is written, the process started and registered, the id returned
RunEtlTask(step_name) ==
    /\ call = Idle
    /\ \E id \in TaskIds \ task_registry :
          /\ shared_output' = [shared_output EXCEPT ![id] = Entry("running", "None")]
          /\ worker' = [worker EXCEPT ![id] = "running"]
          /\ step_of' = [step_of EXCEPT ![id] = step_name]
          /\ task_registry' = task_registry \cup {id}
          /\ reply' = [op |-> "start", id |-> id, status |-> "started", output |-> ""]
    /\ UNCHANGED <<call, fetched>>
    /\ NoEvaluate

\* etl_worker, lines 22-23: the step returns and the result is written
WorkerReturn(id) ==
    /\ worker[id] = "running"
    /\ step_of[id] \in etl_map
    /\ shared_output' = [shared_output EXCEPT ![id] = Entry("completed", "result")]
    /\ worker' = [worker EXCEPT ![id] = "wrote"]
    /\ UNCHANGED <<task_registry, step_of, call, fetched, reply>>
    /\ NoEvaluate

\* etl_worker, line 22: the lookup in etl_map raises KeyError, or the step
\* raises an Exception
WorkerRaise(id) ==
    /\ worker[id] = "running"
    /\ worker' = [worker EXCEPT ![id] = "raising"]
    /\ UNCHANGED <<task_registry, shared_output, step_of, call, fetched, reply>>
    /\ NoEvaluate

\* str(e) of the exception of line 22
ErrorText(id) == IF step_of[id] \in etl_map THEN "error" ELSE "KeyError"

\* etl_worker without its except clause: the exception ends the process
WorkerFailureUncaught(id) ==
    /\ worker[id] = "raising"
    /\ worker' = [worker EXCEPT ![id] = "exited"]
    /\ UNCHANGED <<task_registry, shared_output, step_of, call, fetched, reply>>
    /\ NoEvaluate

\* etl_worker, lines 24-25: the exception is caught and its text written
WorkerRecordFailure(id) ==
    /\ worker[id] = "raising"
    /\ shared_output' = [shared_output EXCEPT ![id] = Entry("failed", ErrorText(id))]
    /\ worker' = [worker EXCEPT ![id] = "wrote"]
    /\ UNCHANGED <<task_registry, step_of, call, fetched, reply>>
    /\ NoEvaluate

\* the process ends after etl_worker has written
WorkerExit(id) ==
    /\ worker[id] = "wrote"
    /\ worker' = [worker EXCEPT ![id] = "exited"]
    /\ UNCHANGED <<task_registry, shared_output, step_of, call, fetched, reply>>
    /\ NoEvaluate

\* the process dies in the step and writes nothing: it is killed from
\* outside, or the step leaves by os._exit or with a BaseException that
\* line 24 does not catch
WorkerDie(id) ==
    /\ worker[id] = "running"
    /\ worker' = [worker EXCEPT ![id] = "exited"]
    /\ UNCHANGED <<task_registry, shared_output, step_of, call, fetched, reply>>
    /\ NoEvaluate

\* the call get_task_status(task_id)
GetTaskStatus(id) ==
    /\ call = Idle
    /\ call' = [op |-> "status", id |-> id, at |-> 36,
                late |-> id \in TaskIds /\ worker[id] = "exited"]
    /\ reply' = NoReply
    /\ fetched' = NoEntry
    /\ UNCHANGED <<task_registry, shared_output, worker, step_of>>
    /\ NoEvaluate

\* lines 36-37
StatusLookup ==
    /\ call.op = "status" /\ call.at = 36
    /\ IF call.id \notin task_registry
       THEN Return("not_found", "")
       ELSE Goto(38)
    /\ UNCHANGED <<task_registry, shared_output, worker, step_of, fetched>>
    /\ NoEvaluate

\* line 38: shared_output[task_id] gives the handler its own copy of the entry
StatusFetch ==
    /\ call.op = "status" /\ call.at = 38
    /\ fetched' = shared_output[call.id]
    /\ IF shared_output[call.id].status = "running" THEN Goto(39) ELSE Goto(42)
    /\ UNCHANGED <<task_registry, shared_output, worker, step_of>>
    /\ NoEvaluate

\* lines 39-41 as they would run if the entry were a proxy of its own: the
\* status unknown reaches the Manager dict
StatusCheckAliveWriteThrough ==
    /\ call.op = "status" /\ call.at = 39
    /\ IF ~IsAlive(call.id)
       THEN /\ fetched' = [fetched EXCEPT !.status = "unknown"]
            /\ shared_output' = [shared_output EXCEPT ![call.id].status = "unknown"]
       ELSE UNCHANGED <<fetched, shared_output>>
    /\ Goto(42)
    /\ UNCHANGED <<task_registry, worker, step_of>>
    /\ NoEvaluate

\* lines 39-41: the status unknown is stored in the copy; the proxy is not
\* told, and the entry in the Manager dict stays as it is
StatusCheckAlive ==
    /\ call.op = "status" /\ call.at = 39
    /\ IF ~IsAlive(call.id)
       THEN fetched' = [fetched EXCEPT !.status = "unknown"]
       ELSE UNCHANGED fetched
    /\ Goto(42)
    /\ UNCHANGED <<task_registry, shared_output, worker, step_of>>
    /\ NoEvaluate

\* line 42
StatusReturn ==
    /\ call.op = "status" /\ call.at = 42
    /\ Return(GetOrUnknown(shared_output, call.id).status,
              GetOrUnknown(shared_output, call.id).output)
    /\ UNCHANGED <<task_registry, shared_output, worker, step_of, fetched>>
    /\ NoEvaluate

\* the call stop_task(task_id)
StopTask(id) ==
    /\ call = Idle
    /\ call' = [op |-> "stop", id |-> id, at |-> 48,
                late |-> id \in TaskIds /\ worker[id] = "exited"]
    /\ reply' = NoReply
    /\ fetched' = NoEntry
    /\ UNCHANGED <<task_registry, shared_output, worker, step_of>>
    /\ NoEvaluate

\* lines 48-50
StopLookup ==
    /\ call.op = "stop" /\ call.at = 48
    /\ IF call.id \notin task_registry
       THEN Return("not_found", "")
       ELSE Goto(52)
    /\ UNCHANGED <<task_registry, shared_output, worker, step_of, fetched>>
    /\ NoEvaluate

\* lines 51-52 and 57
StopCheckAlive ==
    /\ call.op = "stop" /\ call.at = 52
    /\ IF IsAlive(call.id)
       THEN Goto(53)
       ELSE Return("not_running", "")
    /\ UNCHANGED <<task_registry, shared_output, worker, step_of, fetched>>
    /\ NoEvaluate

\* lines 53-56 without line 55
StopTerminateNoRecord ==
    /\ call.op = "stop" /\ call.at = 53
    /\ worker' = [worker EXCEPT ![call.id] = "exited"]
    /\ Return("terminated", "")
    /\ UNCHANGED <<task_registry, shared_output, step_of, fetched>>
    /\ NoEvaluate

\* lines 53-56: terminate and join leave the process dead, whether or not it
\* had ended by itself after line 52; then the entry is overwritten
StopTerminate ==
    /\ call.op = "stop" /\ call.at = 53
    /\ worker' = [worker EXCEPT ![call.id] = "exited"]
    /\ shared_output' = [shared_output EXCEPT ![call.id] = Entry("terminated", "None")]
    /\ Return("terminated", "")
    /\ UNCHANGED <<task_registry, step_of, fetched>>
    /\ NoEvaluate

\* the text get_task_output returns where the entry has no key output
S_no_output == "No output yet."

\* entry.get("output", "No output yet."): every entry that was written has
\* the key output, with the value None while the task is running
OutputOf(entry) == IF entry = NoEntry THEN S_no_output ELSE entry.output

\* get_task_output(task_id), lines 44-45: shared_output.get(task_id, {}) gives
\* the call a copy of the entry, or the empty dict
GetTaskOutput(id) ==
    /\ call = Idle
    /\ fetched' = IF id \in TaskIds THEN shared_output[id] ELSE NoEntry
    /\ reply' = [op |-> "output", id |-> id, status |-> "",
                 output |-> OutputOf(IF id \in TaskIds THEN shared_output[id] ELSE NoEntry)]
    /\ UNCHANGED <<task_registry, shared_output, worker, step_of, call>>
    /\ NoEvaluate

\* init_globals has run; Formula is not in use
TaskInit ==
    /\ df = EmptyTable(0)
    /\ df_at_call = df
    /\ desc = Desc("none", <<>>, <<>>)
    /\ formula = <<>>
    /\ output_col = <<>>
    /\ safe_formula = <<>>
    /\ pc = "idle"
    /\ raised = NoError
    /\ trace = <<>>
    /\ TaskManagerStarted
    /\ loaded = "task_manager"
    /\ Main1Constructed

TaskNext ==
    \/ \E step_name \in StepNames : RunEtlTask(step_name)
    \/ \E id \in TaskIds : WorkerReturn(id)
    \/ \E id \in TaskIds : WorkerRaise(id)
    \/ \E id \in TaskIds : WorkerRecordFailure(id)
    \/ \E id \in TaskIds : WorkerExit(id)
    \/ \E id \in TaskIds : WorkerDie(id)
    \/ \E id \in AnyIds : GetTaskStatus(id)
    \/ StatusLookup
    \/ StatusFetch
    \/ StatusCheckAlive
    \/ StatusReturn
    \/ \E id \in AnyIds : GetTaskOutput(id)
    \/ \E id \in AnyIds : StopTask(id)
    \/ StopLookup
    \/ StopCheckAlive
    \/ StopTerminate

TaskSpec == TaskInit /\ [][TaskNext]_<<vars, tvars>>

\* the state of the task manager is of the modelled shape
TaskTypeOK ==
    /\ task_registry \subseteq TaskIds
    /\ \A id \in TaskIds :
          /\ (id \in task_registry) = (worker[id] # "unstarted")
          /\ (id \in task_registry) = (shared_output[id] # NoEntry)
          /\ worker[id] \in {"unstarted", "running", "raising", "wrote", "exited"}
    /\ call.at \in {0, 36, 38, 39, 42, 48, 52, 53}

\* the statuses the specification lists for the status operation
SpecStatuses == {"running", "completed", "failed", "terminated", "not_found"}

\* the ids run_etl_task has returned: it registers every id it returns, and
\* nothing else adds to or removes from task_registry
StartedIds == task_registry

\* C19: whatever start, stop, status and worker events came before,
\* get_task_status returns one of running, completed, failed, terminated and
\* not_found, and it returns not_found exactly for the ids that start never
\* returned.
C19_StatusIsOneOfFive ==
    reply.op = "status"
        => /\ reply.status \in SpecStatuses
           /\ (reply.status = "not_found") = (reply.id \notin StartedIds)

\* a status call found the process dead with the entry still running, set
\* unknown in its copy, and returned running
C19_Witness ==
    /\ reply.op = "status"
    /\ reply.status = "running"
    /\ worker[reply.id] = "exited"
    /\ fetched.status = "unknown"

\* the task manager's state apart from the call in progress
TaskState == <<task_registry, shared_output, worker, step_of>>

\* a statement of stop_task runs
StopStep == call.op = "stop" /\ call' # call

\* C20: stop_task on an unknown id returns not_found and changes nothing; on
\* a known task whose process is not alive it returns not_running and leaves
\* the task's entry as it is; on a task whose process is alive it goes on to
\* terminate and join the process, after which the process is dead, the
\* entry is terminated with no output, no other task has changed, and
\* terminated is returned.
C20_StopTask ==
    [][StopStep =>
         CASE call.at = 48 /\ call.id \notin task_registry ->
                 /\ call' = Idle /\ reply'.status = "not_found"
                 /\ UNCHANGED TaskState
           [] call.at = 48 /\ call.id \in task_registry ->
                 /\ call'.op = "stop" /\ call'.at = 52
                 /\ UNCHANGED TaskState
           [] call.at = 52 /\ ~IsAlive(call.id) ->
                 /\ call' = Idle /\ reply'.status = "not_running"
                 /\ UNCHANGED TaskState
           [] call.at = 52 /\ IsAlive(call.id) ->
                 /\ call'.op = "stop" /\ call'.at = 53
                 /\ UNCHANGED TaskState
           [] call.at = 53 ->
                 /\ call' = Idle /\ reply'.status = "terminated"
                 /\ reply'.id = call.id
                 /\ worker'[call.id] = "exited"
                 /\ shared_output'[call.id] = Entry("terminated", "None")
                 /\ \A id \in TaskIds \ {call.id} :
                       /\ shared_output'[id] = shared_output[id]
                       /\ worker'[id] = worker[id]
                 /\ UNCHANGED <<task_registry, step_of>>
    ]_<<vars, tvars>>

\* stop_task has terminated a process and returned terminated
C20_Witness ==
    /\ reply.op = "stop"
    /\ reply.status = "terminated"
    /\ worker[reply.id] = "exited"
    /\ shared_output[reply.id] = Entry("terminated", "None")

\* C21: get_task_output returns the step's result once the task is
\* completed, and the placeholder 'No output yet.' for a task that has been
\* started and has not produced a result.  The entry of a running task has
\* the key output with the value None, and None is what the code returns.
C21_OutputOrPlaceholder ==
    (reply.op = "output" /\ reply.id \in StartedIds)
        => /\ fetched.status = "completed" => reply.output = "result"
           /\ fetched.status = "running" => reply.output = S_no_output

\* the statuses after which a task is finished by itself
TerminalStatuses == {"completed", "failed"}

\* C25: once the status of a task is completed or failed, no statement of a
\* later or overlapping stop_task changes its status or its output.  A
\* process that has written and not yet ended is alive at line 52, and line
\* 55 then overwrites the entry.
C25_TerminalStatusStable ==
    [][\A id \in TaskIds :
          (StopStep /\ shared_output[id].status \in TerminalStatuses)
              => shared_output'[id] = shared_output[id]
    ]_<<vars, tvars>>

\* a get_task_status call that began after the task's process had ended
\* returns
LateStatusReturns == call.op = "status" /\ call.late /\ call' = Idle

\* C26: a status call made after the process of a started task has ended,
\* however it ended, returns a status other than running.  A process that
\* died without writing leaves the entry running, and line 41 changes only
\* the copy the call holds.
C26_ExitedNotRunning ==
    [][LateStatusReturns => reply'.status # "running"]_<<vars, tvars>>

(***************************************************************************)
(* main1.ProcessManager: start_process, of which several calls may         *)
(* overlap, get_process_status, cancel_process and                         *)
(* cleanup_completed_processes in the service, and _execute_process with   *)
(* DataProcessor.update_progress in the worker processes.                  *)
(***************************************************************************)
\* the values of ProcessType
ProcessType == {"read", "transform", "enrich", "generate"}

\* the process names a caller passes: a ProcessType and a name that is none
ProcessNames == {"read", "nosuch"}

\* process.is_alive()
ProcAlive(id) == proc[id] \in {"started", "running", "raising", "wrote"}

\* get_active_process_count()
get_active_process_count == Cardinality({id \in active_processes : ProcAlive(id)})

\* the ProcessManager calls neither the formula engine nor task_manager nor
\* the ConnectionManager
OnlyProcessManager == UNCHANGED <<vars, tvars, loaded, cvars>>

Resp(op, id, code, status, progress) ==
    [op |-> op, id |-> id, code |-> code, status |-> status, progress |-> progress]

\* start_process, lines 557-570: the process type is validated and the
\* capacity checked; a call that passes goes on to line 572
StartCheck(process_name) ==
    /\ in_start < MaxCallers
    /\ IF process_name \notin ProcessType
       THEN /\ presp' = Resp("start", 0, 400, "", 0)
            /\ UNCHANGED in_start
       ELSE IF get_active_process_count >= MaxConcurrent
       THEN /\ presp' = Resp("start", 0, 429, "", 0)
            /\ UNCHANGED in_start
       ELSE /\ in_start' = in_start + 1
            /\ UNCHANGED presp
    /\ UNCHANGED <<process_registry, progress_queues, queue, active_processes, proc, emitted>>
    /\ OnlyProcessManager

\* start_process, lines 572-605: the id is drawn, the queue and the info are
\* created, the process is started and registered, the id returned
StartCreate ==
    /\ in_start > 0
    /\ \E id \in ProcIds :
          /\ proc[id] = "unstarted"
          /\ progress_queues' = progress_queues \cup {id}
          /\ process_registry' = [process_registry EXCEPT ![id] = Info("PENDING", "", "")]
          /\ proc' = [proc EXCEPT ![id] = "started"]
          /\ active_processes' = active_processes \cup {id}
          /\ presp' = Resp("start", id, 200, "", 0)
    /\ in_start' = in_start - 1
    /\ UNCHANGED <<queue, emitted>>
    /\ OnlyProcessManager

\* _execute_process, lines 620-623
ExecBegin(id) ==
    /\ proc[id] = "started"
    /\ process_registry' = [process_registry EXCEPT ![id].status = "RUNNING"]
    /\ proc' = [proc EXCEPT ![id] = "running"]
    /\ UNCHANGED <<progress_queues, queue, active_processes, emitted, in_start, presp>>
    /\ OnlyProcessManager

\* the number of updates the workers in ids have put
RECURSIVE Emitted(_)
Emitted(ids) ==
    IF ids = {} THEN 0
    ELSE emitted[CHOOSE id \in ids : TRUE]
            + Emitted(ids \ {CHOOSE id \in ids : TRUE})

\* update_progress, lines 120-129, called by the processor's execute: the
\* k-th update of the worker is put on its queue
UpdateProgress(id) ==
    /\ proc[id] = "running"
    /\ Emitted(ProcIds) < MaxUpdates
    /\ emitted' = [emitted EXCEPT ![id] = emitted[id] + 1]
    /\ queue' = [queue EXCEPT ![id] = Append(queue[id], emitted[id] + 1)]
    /\ UNCHANGED <<process_registry, progress_queues, active_processes, proc, in_start, presp>>
    /\ OnlyProcessManager

\* _execute_process, lines 628-645: execute returns and the result is stored
ExecComplete(id) ==
    /\ proc[id] = "running"
    /\ process_registry' = [process_registry EXCEPT
                               ![id].status = "COMPLETED", ![id].result = "result"]
    /\ proc' = [proc EXCEPT ![id] = "wrote"]
    /\ UNCHANGED <<progress_queues, queue, active_processes, emitted, in_start, presp>>
    /\ OnlyProcessManager

\* _execute_process, lines 628-633: no processor class is registered, or
\* the processor's execute raises an Exception
ExecRaise(id) ==
    /\ proc[id] = "running"
    /\ proc' = [proc EXCEPT ![id] = "raising"]
    /\ UNCHANGED <<process_registry, progress_queues, queue, active_processes,
                   emitted, in_start, presp>>
    /\ OnlyProcessManager

\* _execute_process, lines 649-660: the exception is caught and stored
ExecFail(id) ==
    /\ proc[id] = "raising"
    /\ process_registry' = [process_registry EXCEPT
                               ![id].status = "FAILED", ![id].error = "Process failed"]
    /\ proc' = [proc EXCEPT ![id] = "wrote"]
    /\ UNCHANGED <<progress_queues, queue, active_processes, emitted, in_start, presp>>
    /\ OnlyProcessManager

\* _execute_process, lines 662-665, and the end of the process: the del
\* removes the key from the worker's copy of progress_queues
ExecExit(id) ==
    /\ proc[id] = "wrote"
    /\ proc' = [proc EXCEPT ![id] = "exited"]
    /\ UNCHANGED <<process_registry, progress_queues, queue, active_processes,
                   emitted, in_start, presp>>
    /\ OnlyProcessManager

\* the process dies before it has stored a result
ExecDie(id) ==
    /\ proc[id] \in {"started", "running"}
    /\ proc' = [proc EXCEPT ![id] = "exited"]
    /\ UNCHANGED <<process_registry, progress_queues, queue, active_processes,
                   emitted, in_start, presp>>
    /\ OnlyProcessManager

\* the last element of a sequence that is not empty
Last(q) == q[Len(q)]

\* get_process_status, lines 669-690: the queue is emptied and its last item
\* becomes the progress of the copy that is returned; nothing is stored
GetProcessStatus(id) ==
    /\ IF id \notin ProcIds \/ process_registry[id] = NoInfo
       THEN /\ presp' = Resp("status", id, 404, "", 0)
            /\ UNCHANGED queue
       ELSE /\ presp' = Resp("status", id, 200, process_registry[id].status,
                             IF id \in progress_queues /\ queue[id] # <<>>
                             THEN Last(queue[id])
                             ELSE process_registry[id].progress)
            /\ queue' = IF id \in progress_queues
                        THEN [queue EXCEPT ![id] = <<>>]
                        ELSE queue
    /\ UNCHANGED <<process_registry, progress_queues, active_processes, proc,
                   emitted, in_start>>
    /\ OnlyProcessManager

\* cancel_process, lines 720-738
CancelProcess(id) ==
    /\ IF id \notin ProcIds \/ process_registry[id] = NoInfo
       THEN /\ presp' = Resp("cancel", id, 404, "", 0)
            /\ UNCHANGED <<process_registry, proc>>
       ELSE IF id \in active_processes /\ ProcAlive(id)
       THEN /\ proc' = [proc EXCEPT ![id] = "exited"]
            /\ process_registry' = [process_registry EXCEPT ![id].status = "CANCELLED"]
            /\ presp' = Resp("cancel", id, 200, "True", 0)
       ELSE /\ presp' = Resp("cancel", id, 200, "False", 0)
            /\ UNCHANGED <<process_registry, proc>>
    /\ UNCHANGED <<progress_queues, queue, active_processes, emitted, in_start>>
    /\ OnlyProcessManager

\* the statuses stored together with completed_at
FinishedStatuses == {"COMPLETED", "FAILED", "CANCELLED"}

\* cleanup_completed_processes, lines 766-789: the processes that are not
\* alive leave active_processes, and the entries whose completed_at is older
\* than cleanup_interval, here the set old, leave process_registry
CleanupCompletedProcesses ==
    /\ active_processes' = {id \in active_processes : ProcAlive(id)}
    /\ \E old \in SUBSET {id \in ProcIds : process_registry[id].status \in FinishedStatuses} :
          process_registry' = [id \in ProcIds |->
                                  IF id \in old THEN NoInfo ELSE process_registry[id]]
    /\ UNCHANGED <<progress_queues, queue, proc, emitted, in_start, presp>>
    /\ OnlyProcessManager

\* main1 has been loaded
ProcInit ==
    /\ df = EmptyTable(0)
    /\ df_at_call = df
    /\ desc = Desc("none", <<>>, <<>>)
    /\ formula = <<>>
    /\ output_col = <<>>
    /\ safe_formula = <<>>
    /\ pc = "idle"
    /\ raised = NoError
    /\ trace = <<>>
    /\ TaskManagerStarted
    /\ loaded = "main1"
    /\ Main1Constructed

ProcNext ==
    \/ \E process_name \in ProcessNames : StartCheck(process_name)
    \/ StartCreate
    \/ \E id \in ProcIds : ExecBegin(id)
    \/ \E id \in ProcIds : UpdateProgress(id)
    \/ \E id \in ProcIds : ExecComplete(id)
    \/ \E id \in ProcIds : ExecRaise(id)
    \/ \E id \in ProcIds : ExecFail(id)
    \/ \E id \in ProcIds : ExecExit(id)
    \/ \E id \in ProcIds : ExecDie(id)
    \/ \E id \in AnyProcIds : GetProcessStatus(id)
    \/ \E id \in AnyProcIds : CancelProcess(id)
    \/ CleanupCompletedProcesses

ProcSpec == ProcInit /\ [][ProcNext]_<<vars, svars>>

\* the state of the ProcessManager is of the modelled shape
ProcTypeOK ==
    /\ active_processes \subseteq progress_queues
    /\ \A id \in ProcIds :
          /\ proc[id] \in {"unstarted", "started", "running", "raising", "wrote", "exited"}
          /\ (id \in progress_queues) = (proc[id] # "unstarted")
          /\ ProcAlive(id) => id \in active_processes
          /\ Len(queue[id]) <= emitted[id]
    /\ in_start \in 0..MaxCallers

(***************************************************************************)
(* The two services as far as the failure of a step goes: task_manager as  *)
(* a whole, and of the ProcessManager the calls that start and cancel a    *)
(* process and the worker's _execute_process.                              *)
(***************************************************************************)
FailureInit == TaskInit \/ ProcInit

\* task_manager has been loaded, and not main1
TM == loaded = "task_manager"

\* main1 has been loaded, and not task_manager
PM == loaded = "main1"

FailureNext ==
    \/ TM /\ \E step_name \in StepNames : RunEtlTask(step_name)
    \/ TM /\ \E id \in TaskIds : WorkerReturn(id)
    \/ TM /\ \E id \in TaskIds : WorkerRaise(id)
    \/ TM /\ \E id \in TaskIds : WorkerRecordFailure(id)
    \/ TM /\ \E id \in TaskIds : WorkerExit(id)
    \/ TM /\ \E id \in TaskIds : WorkerDie(id)
    \/ TM /\ \E id \in AnyIds : GetTaskStatus(id)
    \/ TM /\ StatusLookup
    \/ TM /\ StatusFetch
    \/ TM /\ StatusCheckAlive
    \/ TM /\ StatusReturn
    \/ TM /\ \E id \in AnyIds : GetTaskOutput(id)
    \/ TM /\ \E id \in AnyIds : StopTask(id)
    \/ TM /\ StopLookup
    \/ TM /\ StopCheckAlive
    \/ TM /\ StopTerminate
    \/ PM /\ \E process_name \in ProcessNames : StartCheck(process_name)
    \/ PM /\ StartCreate
    \/ PM /\ \E id \in ProcIds : ExecBegin(id)
    \/ PM /\ \E id \in ProcIds : ExecComplete(id)
    \/ PM /\ \E id \in ProcIds : ExecRaise(id)
    \/ PM /\ \E id \in ProcIds : ExecFail(id)
    \/ PM /\ \E id \in ProcIds : ExecExit(id)
    \/ PM /\ \E id \in ProcIds : ExecDie(id)
    \/ PM /\ \E id \in AnyProcIds : CancelProcess(id)

FailureSpec == FailureInit /\ [][FailureNext]_<<vars, svars>>

\* the worker of the task, in which the step has raised, goes on without
\* being stopped
TaskFailureHandled(id) ==
    /\ worker[id] = "raising"
    /\ worker'[id] # "raising"
    /\ shared_output'[id].status # "terminated"

\* the worker of the process, in which execute has raised, goes on without
\* being cancelled
ProcFailureHandled(id) ==
    /\ proc[id] = "raising"
    /\ proc'[id] # "raising"
    /\ process_registry'[id].status # "CANCELLED"

\* C22: when the step of a worker has raised an exception, be it the KeyError
\* of a step name that is not registered, the worker records the status
\* failed with the error text for its task and changes the entry of no other
\* task; the task has an id that its start call returned, and every start
\* call that launches a worker returns the id whatever the step name is.
C22_ExceptionBecomesFailed ==
    [][/\ \A id \in TaskIds :
             TaskFailureHandled(id)
                => /\ shared_output'[id] = Entry("failed", ErrorText(id))
                   /\ id \in StartedIds
                   /\ \A other \in TaskIds \ {id} :
                         shared_output'[other] = shared_output[other]
       /\ \A id \in TaskIds :
             (id \notin task_registry /\ id \in task_registry')
                => /\ reply'.op = "start" /\ reply'.id = id /\ reply'.status = "started"
                   /\ shared_output'[id] = Entry("running", "None")
       /\ \A id \in ProcIds :
             ProcFailureHandled(id)
                => /\ process_registry'[id].status = "FAILED"
                   /\ process_registry'[id].error = "Process failed"
                   /\ id \in active_processes
                   /\ \A other \in ProcIds \ {id} :
                         process_registry'[other] = process_registry[other]
       /\ \A id \in ProcIds :
             (id \notin active_processes /\ id \in active_processes')
                => presp'.op = "start" /\ presp'.id = id /\ presp'.code = 200
    ]_<<vars, svars>>

\* a task whose step name is not registered has failed with the KeyError as
\* its output while another task has completed with its result
C22_Witness ==
    \E id \in TaskIds, other \in TaskIds :
        /\ id # other
        /\ step_of[id] \notin etl_map
        /\ shared_output[id] = Entry("failed", "KeyError")
        /\ shared_output[other] = Entry("completed", "result")

\* a get_process_status call for the process runs and finds its entry
StatusStep(id) ==
    /\ presp'.op = "status" /\ presp'.id = id /\ presp'.code = 200
    /\ UNCHANGED <<process_registry, active_processes, proc, emitted, in_start>>

\* C23: once the worker of a process has emitted an update, every status
\* call for the process returns the update emitted last as its progress,
\* also a call that follows another with no update in between.  The code
\* takes the progress from the queue and stores it nowhere: a call that
\* finds the queue empty returns the progress None of the registry entry.
C23_LatestProgressReturned ==
    [][\A id \in ProcIds :
          (StatusStep(id) /\ emitted[id] > 0) => presp'.progress = emitted[id]
    ]_<<vars, svars>>

\* the worker processes that are alive
AliveProcs == {id \in ProcIds : ProcAlive(id)}

\* a start_process call fails with 429
Refused == presp'.op = "start" /\ presp'.code = 429 /\ presp' # presp

\* C24: at most max_concurrent_processes worker processes are alive at any
\* time, also when start_process calls overlap, and a call that finds the
\* count at the limit fails with 429 and creates no registry entry, no queue
\* and no process.  Between the check of line 566 and the start of line 601
\* nothing keeps a second call from passing the same check.
C24_AtMostMaxConcurrent ==
    /\ [](Cardinality(AliveProcs) <= MaxConcurrent)
    /\ [][Refused => /\ Cardinality(AliveProcs) >= MaxConcurrent
                     /\ UNCHANGED <<process_registry, progress_queues, queue,
                                    active_processes, proc>>
       ]_<<vars, svars>>

(***************************************************************************)
(* main1.ConnectionManager, called as a websocket endpoint calls it:       *)
(* connect for a new websocket, and disconnect once for a websocket that   *)
(* was connected, with the process id it was connected under.              *)
(***************************************************************************)
\* list.remove(x): the list without the first x
RECURSIVE Remove(_, _)
Remove(list, x) ==
    IF list = <<>> THEN <<>>
    ELSE IF Head(list) = x THEN Tail(list)
    ELSE <<Head(list)>> \o Remove(Tail(list), x)

\* x in list
InList(list, x) == \E k \in 1..Len(list) : list[k] = x

\* process_id in self.active_connections
HasKey(id) == active_connections[id].key

\* self.active_connections[process_id]
Connections(id) == active_connections[id].list

\* the list stored under the key
Under(list) == [key |-> TRUE, list |-> list]

\* the websockets an endpoint holds, which it has not yet disconnected
Held == {ws \in Sockets : holder[ws] # 0}

\* the ConnectionManager calls nothing else
OnlyConnectionManager == UNCHANGED <<vars, tvars, loaded, pvars>>

CResp(op, ws, id, exc) == [op |-> op, ws |-> ws, id |-> id, raised |-> exc]

\* connect(websocket, process_id), lines 505-510, for a new websocket
Connect(ws, id) ==
    /\ ws \notin Held
    /\ active_connections' =
          [active_connections EXCEPT ![id] = Under(Append(Connections(id), ws))]
    /\ holder' = [holder EXCEPT ![ws] = id]
    /\ cresp' = CResp("connect", ws, id, "")
    /\ OnlyConnectionManager

\* disconnect(websocket, process_id), lines 512-517, as the endpoint of the
\* websocket calls it: list.remove raises ValueError if the websocket is not
\* in the list
Disconnect(ws) ==
    /\ ws \in Held
    /\ IF ~HasKey(holder[ws])
       THEN /\ cresp' = CResp("disconnect", ws, holder[ws], "")
            /\ UNCHANGED active_connections
       ELSE IF ~InList(Connections(holder[ws]), ws)
       THEN /\ cresp' = CResp("disconnect", ws, holder[ws], "ValueError")
            /\ UNCHANGED active_connections
       ELSE /\ cresp' = CResp("disconnect", ws, holder[ws], "")
            /\ active_connections' =
                  [active_connections EXCEPT ![holder[ws]] =
                      IF Remove(Connections(holder[ws]), ws) = <<>>
                      THEN NoKey
                      ELSE Under(Remove(Connections(holder[ws]), ws))]
    /\ holder' = [holder EXCEPT ![ws] = 0]
    /\ OnlyConnectionManager

\* send_personal_message(message, process_id), lines 519-531: the sends to
\* the websockets in failed raise; these are removed from the list, and the
\* list stays under its key even if it is empty
SendPersonalMessage(id, failed) ==
    /\ IF HasKey(id)
       THEN /\ failed \subseteq {ws \in Sockets : InList(Connections(id), ws)}
            /\ active_connections' =
                  [active_connections EXCEPT
                      ![id] = Under(SelectSeq(Connections(id), LAMBDA ws : ws \notin failed))]
       ELSE /\ failed = {}
            /\ UNCHANGED active_connections
    /\ cresp' = CResp("send", 0, id, "")
    /\ UNCHANGED holder
    /\ OnlyConnectionManager

ConnNext ==
    \/ \E ws \in Sockets, id \in ProcIds : Connect(ws, id)
    \/ \E ws \in Sockets : Disconnect(ws)
    \/ \E id \in ProcIds, failed \in SUBSET Sockets : SendPersonalMessage(id, failed)

ConnSpec == ProcInit /\ [][ConnNext]_<<vars, svars>>

\* C29: a disconnect call for a websocket that was connected under the
\* process id returns without raising, after it the websocket is in no list
\* of active_connections, and no process id is mapped to an empty list.
\* send_personal_message removes a websocket whose send failed and leaves
\* the list, even if empty, under its key: the disconnect that follows finds
\* the key and raises ValueError from list.remove.
C29_DisconnectCompletes ==
    cresp.op = "disconnect"
        => /\ cresp.raised = ""
           /\ \A id \in ProcIds : ~InList(Connections(id), cresp.ws)
           /\ \A id \in ProcIds : HasKey(id) => Connections(id) # <<>>

\* the number of opening parentheses of a text less the number of closing ones
RECURSIVE ParenBalance(_)
ParenBalance(s) ==
    IF s = <<>> THEN 0
    ELSE ParenBalance(Tail(s))
            + (IF Head(s) = "(" THEN 1 ELSE IF Head(s) = ")" THEN -1 ELSE 0)

\* C27: the Slice Rewriter keeps every character outside a matched slice, in
\* particular an opening parenthesis that is not closed before the bracket,
\* so its output has the parenthesis balance of its input.  The pattern's
\* optional opening parenthesis is consumed also where the optional closing
\* one finds no partner.
C27_SliceKeepsParentheses ==
    \A k \in 1..Len(trace) :
        trace[k].stage = "SliceRewriter"
            => ParenBalance(trace[k].out) = ParenBalance(trace[k].inp)

\* C28: on every formula the Column Resolver and the Null-Predicate Rewriter
\* produce, the Slice Rewriter followed by the String-Capability Binder gives
\* the text that the binder followed by the rewriter gives.  Where the
\* rewriter consumes the parenthesis of a method call, the binder no longer
\* finds the call.
C28_SlicesAndMethodsCommute ==
    \A k \in 1..Len(trace) :
        trace[k].stage = "SliceRewriter"
            => ProcessStrMethods(ProcessSlices(trace[k].inp))
                  = ProcessSlices(ProcessStrMethods(trace[k].inp))

====
